---- MODULE Spec2Model ----
(***************************************************************************)
(* State-machine model of the ck-ai-assistant client:                      *)
(*   - the chat provider (hooks/useChat.ts): the local conversation list,  *)
(*     sendMessage with its streamed response, the fire-and-forget saves   *)
(*     of updateConversation, refreshConversationFromDB, selection and     *)
(*     deletion;                                                           *)
(*   - the response generator (services/geminiService.ts) with its         *)
(*     primary/backup fallback;                                            *)
(*   - the task provider (useProjects): addTask, toggleTask, deleteTask.   *)
(* The remote store (the chats and projects tables) is modelled as the row *)
(* values it holds; a request in flight is applied at an arbitrary later   *)
(* step, so requests complete in any order.                                *)
(***************************************************************************)
EXTENDS Integers, Sequences, FiniteSets, TLC

\* ---------------------------------------------------------------- bounds
MaxSends == 1        \* sendMessage calls in one behaviour
MaxChunks == 2       \* chunks the model API delivers during one sendMessage
MaxSelects == 1      \* selectConversation calls in one behaviour
MaxDeletes == 1      \* deleteConversation calls in one behaviour
MaxInFlight == 2     \* upserts that may be in flight at once
MaxTaskOps == 3      \* addTask, toggleTask and deleteTask calls in one behaviour
MaxTicks == 3        \* steps of the database clock in one behaviour
MaxFileOps == 3      \* loadFiles and addFile calls in one behaviour
MaxUpdates == 1      \* updateUser calls in one behaviour
MaxTabAppends == 2   \* messages the two sessions append in one behaviour
MaxHistorySends == 2 \* sendMessage calls in a behaviour of consecutive exchanges
MaxSignIns == 2      \* sign-ins in one behaviour
MaxTimeoutSends == 2 \* sendMessage calls of the variant with a response timeout
MaxTitleLen == 3     \* characters of a model's answer to generateTitle

\* ------------------------------------------------------------- constants
\* null (no active conversation); conversation ids are 1, 2, ...
NULL == 0
\* no row of the chats table (or an errored select)
NoRow == [exists |-> FALSE, title |-> "", messages |-> <<>>]
NoMsgId == <<0, "">>
PRIMARY_MODEL == "gemini-2.5-flash"
BACKUP_MODEL == "gemini-2.0-flash"
models_BackupFirst == <<BACKUP_MODEL, PRIMARY_MODEL>>
\* const models = [PRIMARY_MODEL, BACKUP_MODEL]
models == <<PRIMARY_MODEL, BACKUP_MODEL>>
DefaultTitle == "New Conversation"
\* "I'm sorry, I encountered an error while processing your request. Please try again."
APOLOGY == <<"S", "o", "r", "r", "y">>
USER == "user"
AI == "assistant"

\* Texts are strings, modelled as sequences of characters.
Prompts == {<<"q">>}
\* the text of the k-th chunk the model API delivers during one sendMessage
ChunkText(k) == <<ToString(k)>>
Titles == {"Generated title"}

VARIABLES
    \* ---- chat provider (React state of ChatProvider)
    conversations,         \* Seq of [id, title, messages]
    activeConversationId,  \* a conversation id or NULL
    isLoading,
    sendClosure,           \* `conversations` as captured by the memoized sendMessage
    \* ---- chats table and requests in flight
    remote,                \* [conversation id -> row or NoRow], row = [title, messages]
    inflight,              \* upserts issued by saveConversationToDB, not yet applied
    saveSeq,               \* number of upserts issued so far
    saveLost,              \* some upsert ended with an error
    selRefresh,            \* refreshes started by selectConversation: [id, data]
    pendingDelete,         \* deletes awaiting the remote outcome: [id, active]
    \* ---- the running sendMessage call (its locals) and its position
    sPc,
    send,
    \* ---- the generateResponseStream generator
    gPc,
    gen,
    \* ---- counters that bound the behaviour
    sends, selects, deletes,
    deletedIds,            \* ids whose deleteConversation call has succeeded
    \* ---- task provider (React state of ProjectsProvider) and projects table
    tasks,                 \* Seq of [id, text, completed]
    tasksLoading,          \* isLoading of ProjectsProvider
    remoteTasks,           \* the user's rows of the projects table
    taskOps,               \* calls awaiting their remote outcome
    taskSeq,               \* number of calls made so far
    taskResult,            \* the call that finished last, with its outcome
    \* ---- the database server: its clock and the projects table with completed_at
    now,                   \* NOW(), in hours
    ticks,                 \* number of clock steps taken so far
    projectsTable,         \* [row id -> [exists, completed, completed_at]]
    dbLast,                \* the statement executed last: [op, deleted]
    \* ---- file provider (React state of FilesProvider) and the files table
    files,                 \* Seq of [id, expiresAt]
    filesLoading,          \* isLoading of FilesProvider
    filesTable,            \* [file id -> [exists, expires_at, uploaded_at]]
    fileLoad,              \* the running loadFiles: [pc, data, at, outcome]
    fileAdd,               \* the running addFile: [pc, id, expires_at, uploaded_at]
    fileOps,               \* number of loadFiles and addFile calls so far
    storageObjects,        \* ids of the files whose object is in the user-files bucket
    \* ---- useAuth: the local user, the auth server and the running updateUser
    user,                  \* [id, name], or NoUser for null
    authMeta,              \* user_metadata of the account on the auth server
    authEvent,             \* a USER_UPDATED event not yet delivered to the listener
    upd,                   \* the running updateUser call: its locals and position
    updCalls,              \* number of updateUser calls so far
    \* ---- the chats table under row-level security, with the sessions of all users
    chatsTable,            \* [row id -> [exists, user_id, body]]
    sessionConversations,  \* [user -> the rows loadConversations put in that session's state]
    rlsLast,               \* the statement executed last: [op, uid, before, after]
    \* ---- two sessions (tabs) of the same user on the same chats table
    tabConversations,      \* [tab -> that session's conversations]
    tabRead,               \* [tab -> the refresh select in progress: [pending, data]]
    tabAppends,            \* number of messages appended so far
    \* ---- sign-in and sign-out seen by ChatProvider, and its loadConversations
    loadReqs,              \* loadConversations requests in flight: [n, read, data]
    signIns,               \* number of sign-ins so far
    \* ---- the sendMessage variant with a response timeout, called from ChatInput
    toIsLoading,           \* isLoading of that provider
    toText,                \* [call -> text of the assistant message of that call]
    toCall,                \* [call -> its locals, its position and its stream]
    toSends,               \* number of sendMessage calls so far
    \* ---- generateTitle
    titleCall              \* the last call: [done, responses, result]

chatVars == <<conversations, activeConversationId, isLoading, sendClosure, remote, inflight,
              saveSeq, saveLost, selRefresh, pendingDelete, sPc, send, gPc, gen, sends, selects, deletes, deletedIds>>
taskVars == <<tasks, tasksLoading, remoteTasks, taskOps, taskSeq, taskResult>>
dbVars == <<now, ticks, projectsTable, dbLast>>
fileVars == <<files, filesLoading, filesTable, fileLoad, fileAdd, fileOps, storageObjects>>
authVars == <<user, authMeta, authEvent, upd, updCalls>>
rlsVars == <<chatsTable, sessionConversations, rlsLast>>
tabVars == <<tabConversations, tabRead, tabAppends>>
sessionVars == <<loadReqs, signIns>>
timeoutVars == <<toIsLoading, toText, toCall, toSends>>
titleVars == <<titleCall>>
notChatVars == <<taskVars, dbVars, fileVars, authVars, rlsVars, tabVars, sessionVars, timeoutVars, titleVars>>
notTaskVars == <<chatVars, dbVars, fileVars, authVars, rlsVars, tabVars, sessionVars, timeoutVars, titleVars>>
notDbVars == <<chatVars, taskVars, fileVars, authVars, rlsVars, tabVars, sessionVars, timeoutVars, titleVars>>
\* the file provider uses the clock: its actions leave the rest unchanged
notFileVars == <<chatVars, taskVars, projectsTable, dbLast, authVars, rlsVars, tabVars, sessionVars, timeoutVars, titleVars>>
notAuthVars == <<chatVars, taskVars, dbVars, fileVars, rlsVars, tabVars, sessionVars, timeoutVars, titleVars>>
notRlsVars == <<chatVars, taskVars, dbVars, fileVars, authVars, tabVars, sessionVars, timeoutVars, titleVars>>
notTabVars == <<chatVars, taskVars, dbVars, fileVars, authVars, rlsVars, sessionVars, timeoutVars, titleVars>>
notTimeoutVars == <<chatVars, taskVars, dbVars, fileVars, authVars, rlsVars, tabVars, sessionVars, titleVars>>
notTitleVars == <<chatVars, taskVars, dbVars, fileVars, authVars, rlsVars, tabVars, sessionVars, timeoutVars>>
vars == <<chatVars, taskVars, dbVars, fileVars, authVars, rlsVars, tabVars, sessionVars, timeoutVars, titleVars>>

\* the conversations the user already has in the chats table at sign-in
StoredIds == {1}
StoredRow == [exists |-> TRUE, title |-> "Stored conversation",
              messages |-> <<[id |-> <<0, USER>>, sender |-> USER, text |-> <<"q">>],
                             [id |-> <<0, AI>>, sender |-> AI, text |-> <<"r">>]>>]
ConvIds == 1..(Cardinality(StoredIds) + IF MaxSends > MaxHistorySends THEN MaxSends
                                        ELSE MaxHistorySends)

\* ------------------------------------------------------- pure helpers
RECURSIVE TrimLeft(_)
TrimLeft(text) ==
    IF text # <<>> /\ Head(text) = " " THEN TrimLeft(Tail(text)) ELSE text

RECURSIVE TrimRight(_)
TrimRight(text) ==
    IF text # <<>> /\ text[Len(text)] = " "
    THEN TrimRight(SubSeq(text, 1, Len(text) - 1))
    ELSE text

\* String.prototype.trim()
Trim(text) == TrimRight(TrimLeft(text))

HasConv(convs, id) == \E i \in 1..Len(convs) : convs[i].id = id

ConvOf(convs, id) == convs[CHOOSE i \in 1..Len(convs) : convs[i].id = id]

MsgIds(msgs) == {msgs[i].id : i \in 1..Len(msgs)}

MsgOf(msgs, mid) == msgs[CHOOSE i \in 1..Len(msgs) : msgs[i].id = mid]

RECURSIVE FilterSeq(_, _)
\* prev.filter(x => keep has x.id)
FilterSeq(s, keep) ==
    IF s = <<>> THEN <<>>
    ELSE IF Head(s).id \in keep THEN <<Head(s)>> \o FilterSeq(Tail(s), keep)
         ELSE FilterSeq(Tail(s), keep)

\* the conversations of a list, the arguments an updateFn is applied to
ConvSet(convs) == {convs[i] : i \in 1..Len(convs)}

\* setConversations(prev => prev.map(conv => conv.id === id ? updateFn(conv) : conv))
MapConversation(convs, id, updateFn) ==
    [i \in 1..Len(convs) |-> IF convs[i].id = id THEN updateFn[convs[i]] ELSE convs[i]]

\* the saveConversationToDB calls made from inside that updater: one per
\* conversation of the list whose id matches (none when it is not in the list)
UpdatedConversations(convs, id, updateFn) ==
    {updateFn[convs[i]] : i \in {j \in 1..Len(convs) : convs[j].id = id}}

IssueSaves_NewMessageOnly(payloads, n) ==
    {[n |-> n + 1, conv |-> [p EXCEPT !.messages = <<p.messages[Len(p.messages)]>>]] :
        p \in payloads}

\* the upserts put in flight for a set of at most one payload
IssueSaves(payloads, n) == {[n |-> n + 1, conv |-> p] : p \in payloads}

\* bound of the model: k more upserts fit in flight
Room(k) == Cardinality(inflight) + k <= MaxInFlight

AppendMessage_Prepend(conv, m) == [conv EXCEPT !.messages = <<m>> \o conv.messages]

\* messages: [...conv.messages, m]
AppendMessage(conv, m) == [conv EXCEPT !.messages = Append(conv.messages, m)]

\* messages: conv.messages.map(m => m.id === aiMessageId ? { ...m, text } : m)
SetMessageText(conv, aiMessageId, text) ==
    [conv EXCEPT !.messages =
        [i \in 1..Len(conv.messages) |->
            IF conv.messages[i].id = aiMessageId
            THEN [conv.messages[i] EXCEPT !.text = text]
            ELSE conv.messages[i]]]

SetTitle(conv, t) == [conv EXCEPT !.title = t]

\* refreshConversationFromDB's setConversations: the row replaces the conversation
ReplaceFromRow(convs, id, row) ==
    [i \in 1..Len(convs) |->
        IF convs[i].id = id
        THEN [id |-> id, title |-> row.title, messages |-> row.messages]
        ELSE convs[i]]

\* useCallback(..., [activeConversationId, updateConversation, user,
\* saveConversationToDB]): sendMessage is created anew, capturing the
\* conversations of that render, only when the active id changes (the user
\* and the other callbacks do not change while the user is signed in)
Recreated(closure, activeId, newActiveId, convs) ==
    IF newActiveId # activeId THEN convs ELSE closure

\* let currentConversation = conversations.find(c => c.id === conversationId),
\* with the fallback when it is not found and is the active conversation
CurrentConversationMessages(closure, conversationId, activeId, userMessage) ==
    IF HasConv(closure, conversationId) THEN ConvOf(closure, conversationId).messages
    ELSE IF conversationId = activeId THEN <<userMessage>>
    ELSE <<>>

RECURSIVE ConversationHistory(_, _)
\* rawMessages.filter(msg => msg.id !== aiMessageId && msg.text && msg.text.trim())
\*            .map(msg => ({ role: USER ? 'user' : 'model', content: msg.text }))
ConversationHistory(rawMessages, aiMessageId) ==
    IF rawMessages = <<>> THEN <<>>
    ELSE (IF Head(rawMessages).id # aiMessageId /\ Trim(Head(rawMessages).text) # <<>>
          THEN <<[role |-> IF Head(rawMessages).sender = USER THEN "user" ELSE "model",
                  content |-> Head(rawMessages).text]>>
          ELSE <<>>) \o ConversationHistory(Tail(rawMessages), aiMessageId)

NoSend == [conversationId |-> NULL, needsTitle |-> FALSE, text |-> <<>>,
           userMessageId |-> NoMsgId, aiMessageId |-> NoMsgId, fullResponse |-> <<>>,
           awaited |-> 0, data |-> NoRow, before |-> <<>>, history |-> <<>>,
           closure |-> <<>>, done |-> FALSE]

\* the generator's position in `for (const model of models)`, with its record of
\* the attempts made, how each ended, and the chunks yielded to the consumer
NoGen == [model |-> 0, attempts |-> <<>>, outcomes |-> <<>>, yielded |-> <<>>,
          source |-> <<>>, delivered |-> 0]

RECURSIVE RowsDescending(_, _)
\* loadConversations: select('*').order('created_at', { ascending: false }), the
\* rows newest first (conversation ids are handed out in creation order), each
\* formatted as a conversation
RowsDescending(table, c) ==
    IF c = 0 THEN <<>>
    ELSE IF table[c].exists
         THEN <<[id |-> c, title |-> table[c].title, messages |-> table[c].messages]>>
              \o RowsDescending(table, c - 1)
         ELSE RowsDescending(table, c - 1)

\* ------------------------------------------------------------------ Init
\* The provider is mounted for a signed-in user and loadConversations has
\* delivered the user's stored conversations; nothing is active.
ChatInit ==
    /\ remote = [c \in ConvIds |-> IF c \in StoredIds THEN StoredRow ELSE NoRow]
    /\ conversations = RowsDescending(remote, Cardinality(ConvIds))
    /\ activeConversationId = NULL
    /\ isLoading = FALSE
    /\ sendClosure = <<>>
    /\ inflight = {}
    /\ saveSeq = 0
    /\ saveLost = FALSE
    /\ selRefresh = {}
    /\ pendingDelete = {}
    /\ sPc = "idle"
    /\ send = NoSend
    /\ gPc = "idle"
    /\ gen = NoGen
    /\ sends = 0
    /\ selects = 0
    /\ deletes = 0
    /\ deletedIds = {}

\* ids of tasks: <<"temp", n>> for `temp-${Date.now()}`, <<"db", n>> for a uuid
\* of the projects table
IsTemp(id) == id[1] = "temp"

StoredTask == [id |-> <<"db", 0>>, text |-> <<"t">>, completed |-> FALSE]

NoTaskOp == [n |-> 0, kind |-> "none", id |-> <<"db", 0>>, text |-> <<>>,
             prev |-> FALSE, newCompleted |-> FALSE]

\* The task provider is mounted for a signed-in user and loadTasks has
\* delivered the user's stored task.
TaskInit ==
    /\ remoteTasks = {StoredTask}
    /\ tasks = <<StoredTask>>
    /\ tasksLoading = FALSE
    /\ taskOps = {}
    /\ taskSeq = 0
    /\ taskResult = [op |-> NoTaskOp, result |-> "none"]

\* completed_at IS NULL (times are hours since the start of the behaviour)
NoTime == -1
\* INTERVAL '7 days', in hours
SEVEN_DAYS == 7 * 24
ProjectIds == {1, 2}
NoProject == [exists |-> FALSE, completed |-> FALSE, completed_at |-> NoTime]
\* a row completed before ALTER TABLE ... ADD COLUMN completed_at ... NULL ran
LegacyProject == [exists |-> TRUE, completed |-> TRUE, completed_at |-> NoTime]

DbInit ==
    /\ now = 0
    /\ ticks = 0
    /\ projectsTable = [id \in ProjectIds |-> IF id = 1 THEN LegacyProject ELSE NoProject]
    /\ dbLast = [op |-> "none", deleted |-> {}]

\* FILE_EXPIRATION_TIME = 24 * 60 * 60 * 1000 ms, in hours
FILE_EXPIRATION_TIME == 24
FileIds == 1..MaxFileOps
NoFile == [exists |-> FALSE, expires_at |-> 0, uploaded_at |-> 0]
NoFileLoad == [pc |-> "idle", data |-> [id \in FileIds |-> NoFile], at |-> NoTime,
               outcome |-> "none"]
NoFileAdd == [pc |-> "idle", id |-> 0, expires_at |-> 0, uploaded_at |-> 0]

\* FilesProvider mounted for a user without files, the first loadFiles done
FilesInit ==
    /\ files = <<>>
    /\ filesLoading = FALSE
    /\ filesTable = [id \in FileIds |-> NoFile]
    /\ fileLoad = NoFileLoad
    /\ fileAdd = NoFileAdd
    /\ fileOps = 0
    /\ storageObjects = {}

\* user === null
NoUser == [id |-> 0, name |-> ""]
\* const maxAttempts = 3
maxAttempts == 3
\* for (let verifyAttempt = 1; verifyAttempt <= 3; verifyAttempt++)
maxVerifyAttempts == 3
\* the messages an auth error can carry
ErrorMessages == {"e1", "e2"}
NoError == ""
\* formatUserFromSupabase: id and user_metadata.name || ''
formatUserFromSupabase(meta) == [id |-> 1, name |-> meta.name]
NoUpd == [pc |-> "idle", name |-> "", currentUser |-> [name |-> ""],
          updates |-> [name |-> ""], updateAttempts |-> 0, lastError |-> NoError,
          verifyAttempt |-> 0, outcomes |-> <<>>, userBefore |-> NoUser,
          result |-> [success |-> FALSE, error |-> NoError]]

\* a user is signed in (getInitialSession has set the user)
AuthInit ==
    /\ authMeta = [name |-> "A"]
    /\ user = formatUserFromSupabase([name |-> "A"])
    /\ authEvent = FALSE
    /\ upd = NoUpd
    /\ updCalls = 0

\* the users with an account; auth.uid() of a session without a user is NULL
Users == {1, 2}
ChatRowIds == {1, 2}
Bodies == {"a", "b"}
NoChat == [exists |-> FALSE, user_id |-> NULL, body |-> ""]
NoStatement == [op |-> "none", uid |-> NULL, before |-> NoChat, after |-> NoChat]

\* each user has saved one conversation
RlsInit ==
    /\ chatsTable = [id \in ChatRowIds |->
           IF id \in Users THEN [exists |-> TRUE, user_id |-> id, body |-> "a"]
           ELSE NoChat]
    /\ sessionConversations = [u \in Users |-> {}]
    /\ rlsLast = NoStatement

Tabs == {1, 2}
NoTabRead == [pending |-> FALSE, data |-> NoRow]

\* both sessions have loaded the user's stored conversations
TabsInit ==
    /\ tabConversations =
           [t \in Tabs |-> RowsDescending([c \in ConvIds |-> IF c \in StoredIds THEN StoredRow
                                                             ELSE NoRow],
                                          Cardinality(ConvIds))]
    /\ tabRead = [t \in Tabs |-> NoTabRead]
    /\ tabAppends = 0

\* no loadConversations is in flight
SessionInit ==
    /\ loadReqs = {}
    /\ signIns = 0

\* sendMessage with a response timeout: its locals, before the call
NoCall == [pc |-> "none", text |-> <<>>, file |-> FALSE, fullResponse |-> <<>>,
           hasReceivedChunk |-> FALSE, stream |-> "none", chunks |-> 0,
           timedOut |-> FALSE]

\* generateTitle: what a model answers, or its request failing
NoResponse == [ok |-> FALSE, text |-> <<>>]

TitleInit == titleCall = [done |-> FALSE, responses |-> <<NoResponse, NoResponse>>,
                          result |-> <<>>]

TimeoutInit ==
    /\ toIsLoading = FALSE
    /\ toText = [k \in 1..MaxTimeoutSends |-> <<>>]
    /\ toCall = [k \in 1..MaxTimeoutSends |-> NoCall]
    /\ toSends = 0

Init ==
    /\ ChatInit /\ TaskInit /\ DbInit /\ FilesInit /\ AuthInit /\ RlsInit /\ TabsInit
    /\ SessionInit /\ TimeoutInit /\ TitleInit

\* ------------------------------------------------- the chats table
\* upsert(chatData, { onConflict: 'id' }) reaches the table: the row is replaced
SaveApply(s) ==
    /\ s \in inflight
    /\ remote' = [remote EXCEPT ![s.conv.id] =
                     [exists |-> TRUE, title |-> s.conv.title,
                      messages |-> s.conv.messages]]
    /\ inflight' = inflight \ {s}
    /\ UNCHANGED <<conversations, activeConversationId, isLoading, saveSeq, saveLost,
                   selRefresh, pendingDelete, sPc, send, gPc, gen, sends, selects,
                   deletes, deletedIds, sendClosure, notChatVars>>

\* the upsert returns an error or throws: it is logged and nothing else happens
SaveFail(s) ==
    /\ s \in inflight
    /\ inflight' = inflight \ {s}
    /\ saveLost' = TRUE
    /\ UNCHANGED <<conversations, activeConversationId, isLoading, remote, saveSeq,
                   selRefresh, pendingDelete, sPc, send, gPc, gen, sends, selects,
                   deletes, deletedIds, sendClosure, notChatVars>>

\* ------------------------------------------------------- sendMessage
\* the stream is created and its first chunk requested (for await ... of stream)
StartStream == gPc' = "start" /\ gen' = [NoGen EXCEPT !.model = 1]

\* ChatInput.handleSendMessage -> sendMessage(text), up to its first await.
\* No conversation active: a new one is created, holding the user message, and
\* its save is awaited. Otherwise the user message and the placeholder are
\* appended to the active conversation and the stream is started.
\* sendMessage from the construction of userMessage on, for the k-th call: the
\* call works with the activeConversationId and the conversations of the
\* closure it was made with
SendBody(text, k, activeId, closure) ==
    /\ Room(IF activeId = NULL THEN 1 ELSE 2)
    /\ LET userMessage == [id |-> <<k, USER>>, sender |-> USER, text |-> text]
           aiMessageId == <<k, AI>>
           aiMessagePlaceholder == [id |-> aiMessageId, sender |-> AI, text |-> <<>>]
       IN IF activeId = NULL
          THEN LET conversationId == Cardinality(StoredIds) + k   \* crypto.randomUUID()
                   newConversation == [id |-> conversationId, title |-> DefaultTitle,
                                       messages |-> <<userMessage>>]
               IN /\ conversations' = <<newConversation>> \o conversations
                  /\ activeConversationId' = conversationId
                  /\ inflight' = inflight \cup IssueSaves({newConversation}, saveSeq)
                  /\ saveSeq' = saveSeq + 1
                  /\ send' = [NoSend EXCEPT !.conversationId = conversationId,
                                            !.needsTitle = TRUE,
                                            !.text = text,
                                            !.userMessageId = userMessage.id,
                                            !.aiMessageId = aiMessageId,
                                            !.awaited = saveSeq + 1,
                                            !.history = ConversationHistory(
                                                CurrentConversationMessages(closure,
                                                    conversationId, activeId,
                                                    userMessage),
                                                aiMessageId)]
                  /\ sendClosure' = Recreated(sendClosure, activeConversationId,
                                              conversationId, conversations')
                  /\ sPc' = "awaitSave"
                  /\ UNCHANGED <<gPc, gen>>
          ELSE LET conversationId == activeId
                   withUser == MapConversation(conversations, conversationId,
                                   [conv \in ConvSet(conversations) |-> AppendMessage(conv, userMessage)])
                   saves1 == UpdatedConversations(conversations, conversationId,
                                   [conv \in ConvSet(conversations) |-> AppendMessage(conv, userMessage)])
                   withBoth == MapConversation(withUser, conversationId,
                                   [conv \in ConvSet(withUser) |-> AppendMessage(conv, aiMessagePlaceholder)])
                   saves2 == UpdatedConversations(withUser, conversationId,
                                   [conv \in ConvSet(withUser) |-> AppendMessage(conv, aiMessagePlaceholder)])
               IN /\ conversations' = withBoth
                  /\ inflight' = inflight \cup IssueSaves(saves1, saveSeq)
                                          \cup IssueSaves(saves2, saveSeq + Cardinality(saves1))
                  /\ saveSeq' = saveSeq + Cardinality(saves1) + Cardinality(saves2)
                  /\ send' = [NoSend EXCEPT !.conversationId = conversationId,
                                            !.text = text,
                                            !.userMessageId = userMessage.id,
                                            !.aiMessageId = aiMessageId,
                                            !.before =
                                                IF HasConv(conversations, conversationId)
                                                THEN ConvOf(conversations, conversationId).messages
                                                ELSE <<>>,
                                            !.history = ConversationHistory(
                                                CurrentConversationMessages(closure,
                                                    conversationId, activeId,
                                                    userMessage),
                                                aiMessageId)]
                  /\ sPc' = "stream"
                  /\ StartStream
                  /\ UNCHANGED <<activeConversationId, sendClosure>>
    /\ UNCHANGED <<remote, saveLost, selRefresh, pendingDelete, selects, deletes, deletedIds, notChatVars>>

\* sendMessage(text) with no file attached: nothing is awaited before the
\* conversation is created or extended
SendStartUpTo(text, limit) ==
    /\ sPc = "idle"
    /\ ~isLoading
    /\ sends < limit
    /\ sends' = sends + 1
    /\ isLoading' = TRUE
    /\ SendBody(text, sends + 1, activeConversationId, sendClosure)

SendStart(text) == SendStartUpTo(text, MaxSends)

\* sendMessage(text, file): setIsLoading(true), then userMessage is built with
\* image: await fileToBase64(file), before the try block is entered; the call
\* keeps the activeConversationId and the conversations of its closure
SendStartWithFile(text) ==
    /\ sPc = "idle"
    /\ ~isLoading
    /\ sends < MaxSends
    /\ sends' = sends + 1
    /\ isLoading' = TRUE
    /\ sPc' = "readFile"
    /\ send' = [NoSend EXCEPT !.text = text,
                              !.conversationId = activeConversationId,
                              !.closure = sendClosure]
    /\ UNCHANGED <<conversations, activeConversationId, sendClosure, remote, inflight,
                   saveSeq, saveLost, selRefresh, pendingDelete, gPc, gen, selects,
                   deletes, deletedIds, notChatVars>>

\* reader.onload: the promise of fileToBase64 resolves and sendMessage goes on
FileReadResolved ==
    /\ sPc = "readFile"
    /\ SendBody(send.text, sends, send.conversationId, send.closure)
    /\ UNCHANGED <<sends, isLoading>>

\* reader.onerror: the promise of fileToBase64 is rejected; the await is not
\* inside the try block, so the call ends there: neither the catch nor the
\* finally of sendMessage runs
FileReadRejected ==
    /\ sPc = "readFile"
    /\ sPc' = "idle"
    /\ send' = NoSend
    /\ UNCHANGED <<conversations, activeConversationId, isLoading, sendClosure, remote,
                   inflight, saveSeq, saveLost, selRefresh, pendingDelete, gPc, gen,
                   sends, selects, deletes, deletedIds, notChatVars>>

\* await saveConversationToDB(newConversation) has returned (with or without an
\* error): the placeholder is appended and the stream is started
SendPlaceholder ==
    /\ sPc = "awaitSave"
    /\ \A s \in inflight : s.n # send.awaited
    /\ Room(1)
    /\ LET aiMessagePlaceholder == [id |-> send.aiMessageId, sender |-> AI, text |-> <<>>]
       IN /\ conversations' = MapConversation(conversations, send.conversationId,
                                   [conv \in ConvSet(conversations) |-> AppendMessage(conv, aiMessagePlaceholder)])
          /\ inflight' = inflight \cup
                 IssueSaves(UpdatedConversations(conversations, send.conversationId,
                                [conv \in ConvSet(conversations) |-> AppendMessage(conv, aiMessagePlaceholder)]),
                            saveSeq)
          /\ saveSeq' = saveSeq + Cardinality(UpdatedConversations(conversations,
                                send.conversationId,
                                [conv \in ConvSet(conversations) |-> AppendMessage(conv, aiMessagePlaceholder)]))
    /\ sPc' = "stream"
    /\ StartStream
    /\ UNCHANGED <<activeConversationId, isLoading, remote, saveLost, selRefresh,
                   pendingDelete, send, sends, selects, deletes, deletedIds, sendClosure, notChatVars>>

Accumulate_Overwrite(fullResponse, chunk) == chunk

\* fullResponse += chunk
Accumulate(fullResponse, chunk) == fullResponse \o chunk

ChunkTarget_Active(s) == activeConversationId

\* the conversation the chunks go to: the call's own conversationId
ChunkTarget(s) == s.conversationId

\* the body of `for await (const chunk of stream)`:
\*   fullResponse += chunk; updateConversation(conversationId, ... text: fullResponse)
ConsumeChunk(chunk) ==
    LET fullResponse == Accumulate(send.fullResponse, chunk)
        target == ChunkTarget(send)
    IN /\ send' = [send EXCEPT !.fullResponse = fullResponse]
       /\ conversations' = MapConversation(conversations, target,
                               [conv \in ConvSet(conversations) |-> SetMessageText(conv, send.aiMessageId, fullResponse)])
       /\ inflight' = inflight \cup
              IssueSaves(UpdatedConversations(conversations, target,
                             [conv \in ConvSet(conversations) |-> SetMessageText(conv, send.aiMessageId, fullResponse)]),
                         saveSeq)
       /\ saveSeq' = saveSeq + Cardinality(UpdatedConversations(conversations, target,
                             [conv \in ConvSet(conversations) |-> SetMessageText(conv, send.aiMessageId, fullResponse)]))

\* the loop has ended: if (needsTitle && fullResponse) the title is requested,
\* otherwise the refresh
StreamEnded ==
    sPc' = IF send.needsTitle /\ send.fullResponse # <<>> THEN "title" ELSE "refresh"

\* await generateTitle(...) has returned the title (generateTitle never throws:
\* it returns "New Conversation" when both of its attempts fail)
SendTitle(newTitle) ==
    /\ sPc = "title"
    /\ Room(1)
    /\ conversations' = MapConversation(conversations, send.conversationId,
                            [conv \in ConvSet(conversations) |-> SetTitle(conv, newTitle)])
    /\ inflight' = inflight \cup
           IssueSaves(UpdatedConversations(conversations, send.conversationId,
                          [conv \in ConvSet(conversations) |-> SetTitle(conv, newTitle)]), saveSeq)
    /\ saveSeq' = saveSeq + Cardinality(UpdatedConversations(conversations,
                          send.conversationId, [conv \in ConvSet(conversations) |-> SetTitle(conv, newTitle)]))
    /\ sPc' = "refresh"
    /\ UNCHANGED <<activeConversationId, isLoading, remote, saveLost, selRefresh,
                   pendingDelete, send, gPc, gen, sends, selects, deletes, deletedIds, sendClosure, notChatVars>>

\* refreshConversationFromDB(conversationId): the select ... .single() is answered
\* by the table with the row it holds at that moment; no row, or a failed
\* request, is an error (modelled as NoRow)
SendRefreshRead ==
    /\ sPc = "refresh"
    /\ \E data \in {remote[send.conversationId], NoRow} :
           send' = [send EXCEPT !.data = data]
    /\ sPc' = "refreshed"
    /\ UNCHANGED <<conversations, activeConversationId, isLoading, remote, inflight,
                   saveSeq, saveLost, selRefresh, pendingDelete, gPc, gen, sends,
                   selects, deletes, deletedIds, sendClosure, notChatVars>>

\* the answer arrives: on an error nothing changes, otherwise the row replaces
\* the local conversation; then finally { setIsLoading(false) }
SendFinish ==
    /\ sPc = "refreshed"
    /\ conversations' = IF send.data = NoRow THEN conversations
                        ELSE ReplaceFromRow(conversations, send.conversationId, send.data)
    /\ isLoading' = FALSE
    /\ send' = [send EXCEPT !.done = TRUE]
    /\ sPc' = "idle"
    /\ gPc' = "idle"
    /\ gen' = NoGen
    /\ UNCHANGED <<activeConversationId, remote, inflight, saveSeq, saveLost, selRefresh,
                   pendingDelete, sends, selects, deletes, deletedIds, sendClosure, notChatVars>>

\* ------------------------------------------- generateResponseStream
\* for (const model of models) { try { await ai.models.generateContentStream(...)
GenAttempt ==
    /\ sPc = "stream"
    /\ gPc = "start"
    /\ gen' = [gen EXCEPT !.attempts = Append(gen.attempts, models[gen.model])]
    /\ gPc' = "running"
    /\ UNCHANGED <<conversations, activeConversationId, isLoading, remote, inflight,
                   saveSeq, saveLost, selRefresh, pendingDelete, sPc, send, sends,
                   selects, deletes, deletedIds, sendClosure, notChatVars>>

\* for await (const chunk of responseStream) { yield chunk.text; }: the consumer
\* runs its loop body on the yielded chunk
GenChunk ==
    LET chunk == ChunkText(gen.delivered + 1) IN
    /\ sPc = "stream"
    /\ gPc = "running"
    /\ gen.delivered < MaxChunks
    /\ Room(1)
    /\ gen' = [gen EXCEPT !.yielded = Append(gen.yielded, chunk),
                          !.source = Append(gen.source, models[gen.model]),
                          !.delivered = gen.delivered + 1]
    /\ ConsumeChunk(chunk)
    /\ UNCHANGED <<activeConversationId, isLoading, remote, saveLost, selRefresh,
                   pendingDelete, sPc, gPc, sends, selects, deletes, deletedIds, sendClosure, notChatVars>>

\* the response stream ended: return; the consumer's loop ends
GenReturn ==
    /\ sPc = "stream"
    /\ gPc = "running"
    /\ gPc' = "done"
    /\ gen' = [gen EXCEPT !.outcomes = Append(gen.outcomes, "ok")]
    /\ StreamEnded
    /\ UNCHANGED <<conversations, activeConversationId, isLoading, remote, inflight,
                   saveSeq, saveLost, selRefresh, pendingDelete, send, sends,
                   selects, deletes, deletedIds, sendClosure, notChatVars>>

\* the request or the response stream threw: catch (error) { if (model ===
\* BACKUP_MODEL) yield apology } and the loop goes on to the next model
ApologyModel_Primary == PRIMARY_MODEL

\* the model whose failure makes the generator yield the apology
ApologyModel == BACKUP_MODEL

GenFail ==
    /\ sPc = "stream"
    /\ gPc = "running"
    /\ IF models[gen.model] = ApologyModel
       THEN /\ Room(1)
            /\ gen' = [gen EXCEPT !.yielded = Append(gen.yielded, APOLOGY),
                                  !.source = Append(gen.source, "apology"),
                                  !.outcomes = Append(gen.outcomes, "error"),
                                  !.model = gen.model + 1]
            /\ ConsumeChunk(APOLOGY)
       ELSE /\ gen' = [gen EXCEPT !.outcomes = Append(gen.outcomes, "error"),
                                  !.model = gen.model + 1]
            /\ UNCHANGED <<conversations, inflight, saveSeq, send>>
    /\ gPc' = IF gen.model < Len(models) THEN "start" ELSE "exhausted"
    /\ UNCHANGED <<activeConversationId, isLoading, remote, saveLost, selRefresh,
                   pendingDelete, sPc, sends, selects, deletes, deletedIds, sendClosure, notChatVars>>

\* no model is left: the generator returns; the consumer's loop ends
GenExhausted ==
    /\ sPc = "stream"
    /\ gPc = "exhausted"
    /\ gPc' = "done"
    /\ StreamEnded
    /\ UNCHANGED <<conversations, activeConversationId, isLoading, remote, inflight,
                   saveSeq, saveLost, selRefresh, pendingDelete, send, gen, sends,
                   selects, deletes, deletedIds, sendClosure, notChatVars>>

\* --------------------------------------------- navigation and deletion
StartNewChat ==
    /\ activeConversationId' = NULL
    /\ sendClosure' = Recreated(sendClosure, activeConversationId, NULL, conversations)
    /\ UNCHANGED <<conversations, isLoading, remote, inflight, saveSeq, saveLost,
                   selRefresh, pendingDelete, sPc, send, gPc, gen, sends, selects,
                   deletes, deletedIds, notChatVars>>

\* Sidebar onSelect(conversation.id): setActiveConversationId(id), then the
\* refresh request is sent
SelectConversation(id) ==
    /\ HasConv(conversations, id)
    /\ selects < MaxSelects
    /\ selects' = selects + 1
    /\ activeConversationId' = id
    /\ sendClosure' = Recreated(sendClosure, activeConversationId, id, conversations)
    /\ selRefresh' = selRefresh \cup {[id |-> id, read |-> FALSE, data |-> NoRow]}
    /\ UNCHANGED <<conversations, isLoading, remote, inflight, saveSeq, saveLost,
                   pendingDelete, sPc, send, gPc, gen, sends, deletes, deletedIds, notChatVars>>

\* the table answers the select of a refresh started by selectConversation
SelectRefreshRead(r) ==
    /\ r \in selRefresh
    /\ ~r.read
    /\ \E data \in {remote[r.id], NoRow} :
           selRefresh' = (selRefresh \ {r}) \cup {[r EXCEPT !.read = TRUE, !.data = data]}
    /\ UNCHANGED <<conversations, activeConversationId, isLoading, remote, inflight,
                   saveSeq, saveLost, pendingDelete, sPc, send, gPc, gen, sends,
                   selects, deletes, deletedIds, sendClosure, notChatVars>>

\* its answer arrives
SelectRefreshDone(r) ==
    /\ r \in selRefresh
    /\ r.read
    /\ selRefresh' = selRefresh \ {r}
    /\ conversations' = IF r.data = NoRow THEN conversations
                        ELSE ReplaceFromRow(conversations, r.id, r.data)
    /\ UNCHANGED <<activeConversationId, isLoading, remote, inflight, saveSeq, saveLost,
                   pendingDelete, sPc, send, gPc, gen, sends, selects, deletes, deletedIds, sendClosure, notChatVars>>

\* Sidebar onDelete(conversation.id): the remote delete is sent; the callback
\* keeps the activeConversationId of the render it was created in
DeleteConversation(id) ==
    /\ HasConv(conversations, id)
    /\ deletes < MaxDeletes
    /\ deletes' = deletes + 1
    /\ pendingDelete' = pendingDelete \cup {[id |-> id, active |-> activeConversationId]}
    /\ UNCHANGED <<conversations, activeConversationId, isLoading, remote, inflight,
                   saveSeq, saveLost, selRefresh, sPc, send, gPc, gen, sends, selects,
                   sendClosure, deletedIds, notChatVars>>

\* the delete succeeded: the row is gone, the conversation is filtered out of
\* the list, and the active id is cleared if it was id when the call was made
DeleteSucceeded(d) ==
    /\ d \in pendingDelete
    /\ pendingDelete' = pendingDelete \ {d}
    /\ remote' = [remote EXCEPT ![d.id] = NoRow]
    /\ deletedIds' = deletedIds \cup {d.id}
    /\ conversations' = FilterSeq(conversations,
                            {conversations[i].id : i \in 1..Len(conversations)} \ {d.id})
    /\ activeConversationId' = IF d.active = d.id THEN NULL ELSE activeConversationId
    /\ sendClosure' = Recreated(sendClosure, activeConversationId, activeConversationId',
                                conversations')
    /\ UNCHANGED <<isLoading, inflight, saveSeq, saveLost, selRefresh, sPc, send, gPc,
                   gen, sends, selects, deletes, notChatVars>>

\* the delete reported an error: it is logged and nothing changes
DeleteFailed(d) ==
    /\ d \in pendingDelete
    /\ pendingDelete' = pendingDelete \ {d}
    /\ UNCHANGED <<conversations, activeConversationId, isLoading, remote, inflight,
                   saveSeq, saveLost, selRefresh, sPc, send, gPc, gen, sends, selects,
                   deletes, deletedIds, sendClosure, notChatVars>>

ChatNext ==
    \/ \E text \in Prompts : SendStart(text)
    \/ SendPlaceholder
    \/ \E t \in Titles \cup {DefaultTitle} : SendTitle(t)
    \/ SendRefreshRead
    \/ SendFinish
    \/ GenAttempt
    \/ GenChunk
    \/ GenReturn
    \/ GenFail
    \/ GenExhausted
    \/ \E s \in inflight : SaveApply(s)
    \/ \E s \in inflight : SaveFail(s)
    \/ StartNewChat
    \/ \E id \in ConvIds : SelectConversation(id)
    \/ \E r \in selRefresh : SelectRefreshRead(r)
    \/ \E r \in selRefresh : SelectRefreshDone(r)

Spec == Init /\ [][ChatNext]_vars

\* consecutive exchanges: the same provider with every request answered
\* without error, in the conversation created by the first message or in a
\* stored one selected from the sidebar
HistoryNext ==
    \/ \E text \in Prompts : SendStartUpTo(text, MaxHistorySends)
    \/ SendPlaceholder
    \/ \E t \in Titles : SendTitle(t)
    \/ SendRefreshRead
    \/ SendFinish
    \/ GenAttempt
    \/ GenChunk
    \/ GenReturn
    \/ \E s \in inflight : SaveApply(s)
    \/ \E id \in ConvIds : SelectConversation(id)
    \/ \E r \in selRefresh : SelectRefreshRead(r)
    \/ \E r \in selRefresh : SelectRefreshDone(r)

SpecHistory == Init /\ [][HistoryNext]_vars

\* what happens without the user once sendMessage has been called: the file
\* read ends, requests are answered, the generator and the call go on
SendFlowContinue ==
    \/ FileReadResolved
    \/ FileReadRejected
    \/ SendPlaceholder
    \/ \E t \in Titles \cup {DefaultTitle} : SendTitle(t)
    \/ SendRefreshRead
    \/ SendFinish
    \/ GenAttempt
    \/ GenChunk
    \/ GenReturn
    \/ GenFail
    \/ GenExhausted
    \/ \E s \in inflight : SaveApply(s)
    \/ \E s \in inflight : SaveFail(s)
    \/ \E r \in selRefresh : SelectRefreshRead(r)
    \/ \E r \in selRefresh : SelectRefreshDone(r)

\* one message, with or without an attached file, in a new conversation or in
\* a stored one selected from the sidebar
SendFlowNext ==
    \/ \E text \in Prompts : SendStart(text)
    \/ \E text \in Prompts : SendStartWithFile(text)
    \/ \E id \in ConvIds : SelectConversation(id)
    \/ SendFlowContinue

SpecSendFlow == Init /\ [][SendFlowNext]_vars

\* every pending file read, request and generator step eventually happens
SpecSendFlowFair == SpecSendFlow /\ WF_vars(SendFlowContinue)

\* a conversation is deleted from the sidebar while a message is being
\* answered in it or while its saves are still on their way
DeleteNext ==
    \/ \E text \in Prompts : SendStart(text)
    \/ SendPlaceholder
    \/ \E t \in Titles : SendTitle(t)
    \/ SendRefreshRead
    \/ SendFinish
    \/ GenAttempt
    \/ GenChunk
    \/ GenReturn
    \/ \E s \in inflight : SaveApply(s)
    \/ \E id \in ConvIds : SelectConversation(id)
    \/ \E r \in selRefresh : SelectRefreshRead(r)
    \/ \E r \in selRefresh : SelectRefreshDone(r)
    \/ \E id \in ConvIds : DeleteConversation(id)
    \/ \E d \in pendingDelete : DeleteSucceeded(d)
    \/ \E d \in pendingDelete : DeleteFailed(d)

SpecDelete == Init /\ [][DeleteNext]_vars

\* the sidebar and the input used in any order: conversations are selected,
\* started, written to and deleted while earlier requests are still pending
NavigateNext ==
    \/ DeleteNext
    \/ StartNewChat

SpecNavigate == Init /\ [][NavigateNext]_vars

\* ===================================================================
\* Properties of the chat provider and the generator
\* ===================================================================
RECURSIVE Flatten(_)
Flatten(ss) == IF ss = <<>> THEN <<>> ELSE Head(ss) \o Flatten(Tail(ss))

IsPrefix(p, t) == Len(p) <= Len(t) /\ SubSeq(t, 1, Len(p)) = p

EndsWith(t, suffix) ==
    Len(suffix) <= Len(t) /\ SubSeq(t, Len(t) - Len(suffix) + 1, Len(t)) = suffix

HasMsg(convs, cid, mid) ==
    HasConv(convs, cid) /\ mid \in MsgIds(ConvOf(convs, cid).messages)

TextOf(convs, cid, mid) == MsgOf(ConvOf(convs, cid).messages, mid).text

\* a step of the running sendMessage call or of its generator
SendMessageStep == sPc' # sPc \/ send' # send \/ gPc' # gPc \/ gen' # gen

\* C1: once sendMessage has returned and every save it issued has been applied
\* by the chats table (none failed, in whatever order they completed), the row
\* and the local conversation are equal and both end with the user message
\* followed by the assistant message holding the complete response.
C1_RowEqualsLocalAfterSend ==
    (send.done /\ sPc = "idle" /\ inflight = {} /\ ~saveLost /\ selects = 0) =>
        /\ HasConv(conversations, send.conversationId)
        /\ remote[send.conversationId].exists
        /\ LET conv == ConvOf(conversations, send.conversationId)
               row == remote[send.conversationId]
               n == Len(conv.messages)
           IN /\ row.messages = conv.messages
              /\ row.title = conv.title
              /\ n >= 2
              /\ conv.messages[n - 1] =
                     [id |-> send.userMessageId, sender |-> USER, text |-> send.text]
              /\ conv.messages[n] =
                     [id |-> send.aiMessageId, sender |-> AI, text |-> send.fullResponse]

\* C2: the step of sendMessage that starts the stream leaves the conversation,
\* when it is in the local list, with the messages it had before the call, in
\* their order and unchanged, followed by the new user message and then the
\* assistant placeholder with empty text; no chunk has been applied yet.
C2_PlaceholderFollowsUserMessage ==
    [][(sPc # "stream" /\ sPc' = "stream"
        /\ HasConv(conversations', send'.conversationId)) =>
          /\ ConvOf(conversations', send'.conversationId).messages =
                send'.before \o
                <<[id |-> send'.userMessageId, sender |-> USER, text |-> send'.text],
                  [id |-> send'.aiMessageId, sender |-> AI, text |-> <<>>]>>
          /\ send'.fullResponse = <<>>
          /\ gen'.yielded = <<>>]_vars

\* a message was sent in a conversation that had messages: they are followed by
\* the user message and the empty placeholder
C2_Witness ==
    /\ sPc = "stream"
    /\ gPc = "start"
    /\ send.before # <<>>
    /\ HasConv(conversations, send.conversationId)
    /\ ConvOf(conversations, send.conversationId).messages =
           send.before \o
           <<[id |-> send.userMessageId, sender |-> USER, text |-> send.text],
             [id |-> send.aiMessageId, sender |-> AI, text |-> <<>>]>>

\* C3: each chunk consumed extends the accumulated response by exactly that
\* chunk, so that it is the in-order concatenation of the chunks yielded so far,
\* and the placeholder (when the conversation holds it) gets exactly that text.
C3_TextIsConcatenation ==
    [][(sPc = "stream" /\ gen'.yielded # gen.yielded) =>
          /\ send'.fullResponse = Flatten(gen'.yielded)
          /\ IsPrefix(send.fullResponse, send'.fullResponse)
          /\ HasMsg(conversations', send.conversationId, send.aiMessageId) =>
                TextOf(conversations', send.conversationId, send.aiMessageId)
                    = Flatten(gen'.yielded)]_vars

\* two chunks were consumed and the placeholder holds both, in order
C3_Witness ==
    /\ sPc = "stream"
    /\ gen.yielded = <<ChunkText(1), ChunkText(2)>>
    /\ HasMsg(conversations, send.conversationId, send.aiMessageId)
    /\ TextOf(conversations, send.conversationId, send.aiMessageId)
           = ChunkText(1) \o ChunkText(2)

\* C4: the generator attempts the primary model first, the backup model only
\* after the primary attempt ended with an error, never more than two attempts,
\* and none after an attempt that completed.
C4_PrimaryThenBackup ==
    /\ Len(gen.attempts) <= 2
    /\ Len(gen.attempts) >= 1 => gen.attempts[1] = PRIMARY_MODEL
    /\ Len(gen.attempts) = 2 =>
          /\ gen.attempts[2] = BACKUP_MODEL
          /\ Len(gen.outcomes) >= 1
          /\ gen.outcomes[1] = "error"
    /\ \A i \in 1..Len(gen.outcomes) :
          gen.outcomes[i] = "ok" => Len(gen.attempts) = i /\ gPc = "done"

\* the primary attempt failed and the backup attempt completed
C4_Witness ==
    /\ gPc = "done"
    /\ gen.attempts = <<PRIMARY_MODEL, BACKUP_MODEL>>
    /\ gen.outcomes = <<"error", "ok">>

\* C5: when both attempts have failed, the last chunk the generator yielded is
\* the apology, the generator ends by returning (the consumer goes on to the
\* title or the refresh), and the apology reached the assistant message through
\* the chunk path: the text written is the accumulated response, ending with it.
C5_ApologyWhenBothFail ==
    /\ [](gen.outcomes = <<"error", "error">> =>
            /\ gen.yielded # <<>>
            /\ gen.yielded[Len(gen.yielded)] = APOLOGY
            /\ EndsWith(send.fullResponse, APOLOGY)
            /\ gPc \in {"exhausted", "done"}
            /\ sPc \in {"stream", "title", "refresh", "refreshed"}
            /\ gPc = "done" => sPc # "stream")
    /\ [][(gen.outcomes # <<"error", "error">> /\ gen'.outcomes = <<"error", "error">>
           /\ HasMsg(conversations', send.conversationId, send.aiMessageId)) =>
             /\ TextOf(conversations', send.conversationId, send.aiMessageId)
                    = send'.fullResponse
             /\ EndsWith(TextOf(conversations', send.conversationId, send.aiMessageId),
                         APOLOGY)]_vars

\* both attempts failed, the second after a chunk, and the assistant message
\* ends with the apology
C5_Witness ==
    /\ gPc = "done"
    /\ gen.outcomes = <<"error", "error">>
    /\ gen.delivered >= 1
    /\ HasMsg(conversations, send.conversationId, send.aiMessageId)
    /\ EndsWith(TextOf(conversations, send.conversationId, send.aiMessageId), APOLOGY)

\* C6: a step of sendMessage keeps every message of every conversation, other
\* than the call's own assistant placeholder, in its conversation with its text.
C6_FinalizedMessagesKept ==
    [][SendMessageStep =>
          \A i \in 1..Len(conversations) :
              \A j \in 1..Len(conversations[i].messages) :
                  LET m == conversations[i].messages[j] IN
                  m.id # send'.aiMessageId =>
                      /\ HasMsg(conversations', conversations[i].id, m.id)
                      /\ TextOf(conversations', conversations[i].id, m.id) = m.text]_vars

\* C7: while the response is streamed, a step that changes the active
\* conversation (startNewChat, selectConversation) leaves the call and its
\* generator as they are, and a chunk changes no conversation other than the one
\* the message was sent in, whose placeholder gets the accumulated text.
C7_StreamKeepsItsConversation ==
    [][/\ (sPc = "stream" /\ activeConversationId' # activeConversationId) =>
              (sPc' = "stream" /\ send' = send /\ gPc' = gPc /\ gen' = gen)
       /\ (sPc = "stream" /\ gen'.yielded # gen.yielded) =>
              /\ Len(conversations') = Len(conversations)
              /\ \A i \in 1..Len(conversations) :
                    conversations[i].id # send.conversationId =>
                        conversations'[i] = conversations[i]
              /\ HasMsg(conversations, send.conversationId, send.aiMessageId) =>
                    /\ HasMsg(conversations', send.conversationId, send.aiMessageId)
                    /\ TextOf(conversations', send.conversationId, send.aiMessageId)
                           = send'.fullResponse]_vars

\* another conversation was selected while the response was streamed, and the
\* chunks received so far are in the placeholder of the sending conversation
C7_Witness ==
    /\ sPc = "stream"
    /\ gPc = "running"
    /\ activeConversationId \notin {NULL, send.conversationId}
    /\ gen.delivered >= 1
    /\ HasMsg(conversations, send.conversationId, send.aiMessageId)
    /\ TextOf(conversations, send.conversationId, send.aiMessageId) = send.fullResponse
    /\ ENABLED GenChunk

\* ===================================================================
\* The task provider (useProjects)
\* ===================================================================
TaskTexts == {<<" ">>, <<"t">>}

HasTask(ts, id) == \E i \in 1..Len(ts) : ts[i].id = id

TaskOf(ts, id) == ts[CHOOSE i \in 1..Len(ts) : ts[i].id = id]

TaskIdsOf(ts) == {ts[i].id : i \in 1..Len(ts)}

RemoveTask_KeepOnlyTemp(ts, id) == FilterSeq(ts, {t \in TaskIdsOf(ts) : IsTemp(t)})

\* setTasks(prev => prev.filter(task => task.id !== id))
RemoveTask(ts, id) == FilterSeq(ts, TaskIdsOf(ts) \ {id})

\* setTasks(prev => prev.map(task => task.id === tempTask.id ? saved : task))
ReplaceTask(ts, id, saved) ==
    [i \in 1..Len(ts) |-> IF ts[i].id = id THEN saved ELSE ts[i]]

\* setTasks(prev => prev.map(task => task.id === id ? { ...task, completed } : task))
SetCompleted(ts, id, completed) ==
    [i \in 1..Len(ts) |->
        IF ts[i].id = id THEN [ts[i] EXCEPT !.completed = completed] ELSE ts[i]]

RevertTo_NewValue(op) == op.newCompleted

\* the value toggleTask writes back when the update reports an error:
\* currentTask.completed
RevertTo(op) == op.prev

TasksOnDeleteCall_Optimistic(ts, id) == RemoveTask(ts, id)

\* deleteTask changes the local list only after the remote delete has returned
TasksOnDeleteCall(ts, id) == ts

Finish(op, result) ==
    /\ taskOps' = taskOps \ {op}
    /\ tasksLoading' = FALSE
    /\ taskResult' = [op |-> op, result |-> result]

\* addTask(text), up to its await: blank text returns at once; otherwise the
\* temporary task is put at the head of the list and the insert is sent
AddTask(text) ==
    /\ taskSeq < MaxTaskOps
    /\ IF Trim(text) = <<>>
       THEN UNCHANGED notChatVars
       ELSE LET tempTask == [id |-> <<"temp", taskSeq + 1>>, text |-> text,
                             completed |-> FALSE]
            IN /\ tasksLoading' = TRUE
               /\ tasks' = <<tempTask>> \o tasks
               /\ taskSeq' = taskSeq + 1
               /\ taskOps' = taskOps \cup
                      {[NoTaskOp EXCEPT !.n = taskSeq + 1, !.kind = "add",
                                        !.id = tempTask.id, !.text = text]}
               /\ UNCHANGED <<remoteTasks, taskResult>>
    /\ UNCHANGED notTaskVars

\* the insert returned the stored row: it replaces the temporary task
AddTaskSaved(op) ==
    /\ op \in taskOps
    /\ op.kind = "add"
    /\ LET savedTask == [id |-> <<"db", op.n>>, text |-> op.text, completed |-> FALSE]
       IN /\ remoteTasks' = remoteTasks \cup {savedTask}
          /\ tasks' = ReplaceTask(tasks, op.id, savedTask)
    /\ Finish(op, "ok")
    /\ UNCHANGED <<taskSeq, notTaskVars>>

\* insertTaskToDB returned null (the insert reported an error or threw): the
\* temporary task is removed
AddTaskFailed(op) ==
    /\ op \in taskOps
    /\ op.kind = "add"
    /\ tasks' = RemoveTask(tasks, op.id)
    /\ Finish(op, "error")
    /\ UNCHANGED <<remoteTasks, taskSeq, notTaskVars>>

\* TaskItem onToggle(task.id) -> toggleTask(id), up to its await: the flag of
\* the task found in the rendered list is negated and written to the local list,
\* and the update is sent
ToggleTask(id) ==
    /\ taskSeq < MaxTaskOps
    /\ HasTask(tasks, id)
    /\ LET currentTask == TaskOf(tasks, id)
           newCompleted == ~currentTask.completed
       IN /\ tasks' = SetCompleted(tasks, id, newCompleted)
          /\ taskOps' = taskOps \cup
                 {[NoTaskOp EXCEPT !.n = taskSeq + 1, !.kind = "toggle", !.id = id,
                                   !.prev = currentTask.completed,
                                   !.newCompleted = newCompleted]}
    /\ tasksLoading' = TRUE
    /\ taskSeq' = taskSeq + 1
    /\ UNCHANGED <<remoteTasks, taskResult, notTaskVars>>

\* the update returned without error (a temporary id is no uuid, so an update
\* by it cannot succeed); the rows with that id get the new flag
ToggleTaskUpdated(op) ==
    /\ op \in taskOps
    /\ op.kind = "toggle"
    /\ ~IsTemp(op.id)
    /\ remoteTasks' = {IF row.id = op.id THEN [row EXCEPT !.completed = op.newCompleted]
                       ELSE row : row \in remoteTasks}
    /\ Finish(op, "ok")
    /\ UNCHANGED <<tasks, taskSeq, notTaskVars>>

\* the update reported an error: the optimistic update is reverted
ToggleTaskError(op) ==
    /\ op \in taskOps
    /\ op.kind = "toggle"
    /\ tasks' = SetCompleted(tasks, op.id, RevertTo(op))
    /\ Finish(op, "error")
    /\ UNCHANGED <<remoteTasks, taskSeq, notTaskVars>>

\* the update threw: catch (error) logs it
ToggleTaskThrew(op) ==
    /\ op \in taskOps
    /\ op.kind = "toggle"
    /\ Finish(op, "threw")
    /\ UNCHANGED <<tasks, remoteTasks, taskSeq, notTaskVars>>

\* TaskItem onDelete(task.id) -> deleteTask(id), up to its await
DeleteTask(id) ==
    /\ taskSeq < MaxTaskOps
    /\ HasTask(tasks, id)
    /\ tasksLoading' = TRUE
    /\ tasks' = TasksOnDeleteCall(tasks, id)
    /\ taskSeq' = taskSeq + 1
    /\ taskOps' = taskOps \cup {[NoTaskOp EXCEPT !.n = taskSeq + 1, !.kind = "delete",
                                                 !.id = id]}
    /\ UNCHANGED <<remoteTasks, taskResult, notTaskVars>>

\* the delete returned without error: the task is filtered out of the list
DeleteTaskDeleted(op) ==
    /\ op \in taskOps
    /\ op.kind = "delete"
    /\ ~IsTemp(op.id)
    /\ remoteTasks' = {row \in remoteTasks : row.id # op.id}
    /\ tasks' = RemoveTask(tasks, op.id)
    /\ Finish(op, "ok")
    /\ UNCHANGED <<taskSeq, notTaskVars>>

\* the delete reported an error or threw: it is logged
DeleteTaskError(op) ==
    /\ op \in taskOps
    /\ op.kind = "delete"
    /\ Finish(op, "error")
    /\ UNCHANGED <<tasks, remoteTasks, taskSeq, notTaskVars>>

TaskIds == {<<k, n>> : k \in {"temp", "db"}, n \in 0..MaxTaskOps}

TaskNext ==
    \/ \E text \in TaskTexts : AddTask(text)
    \/ \E op \in taskOps : AddTaskSaved(op)
    \/ \E op \in taskOps : AddTaskFailed(op)
    \/ \E id \in TaskIds : ToggleTask(id)
    \/ \E op \in taskOps : ToggleTaskUpdated(op)
    \/ \E op \in taskOps : ToggleTaskError(op)
    \/ \E op \in taskOps : ToggleTaskThrew(op)
    \/ \E id \in TaskIds : DeleteTask(id)
    \/ \E op \in taskOps : DeleteTaskDeleted(op)
    \/ \E op \in taskOps : DeleteTaskError(op)

SpecTasks == Init /\ [][TaskNext]_vars

\* tasks are added and toggled, and every update of a toggle either succeeds
\* or reports an error
ToggleNext ==
    \/ \E text \in TaskTexts : AddTask(text)
    \/ \E op \in taskOps : AddTaskSaved(op)
    \/ \E op \in taskOps : AddTaskFailed(op)
    \/ \E id \in TaskIds : ToggleTask(id)
    \/ \E op \in taskOps : ToggleTaskUpdated(op)
    \/ \E op \in taskOps : ToggleTaskError(op)

SpecToggle == Init /\ [][ToggleNext]_vars

\* ===================================================================
\* Properties of the task provider
\* ===================================================================
Started(kind) == {op \in taskOps' \ taskOps : op.kind = kind}

Finished(kind) == {op \in taskOps \ taskOps' : op.kind = kind}

\* ts2 is ts with every entry of another id unchanged and in place
OthersUnchanged(ts, ts2, id) ==
    /\ Len(ts2) = Len(ts)
    /\ \A i \in 1..Len(ts) : ts[i].id # id => ts2[i] = ts[i]

\* C8: addTask with non-blank text puts a task with a temporary id at the head
\* of the local list while the insert is pending; when the insert succeeds that
\* entry is replaced in place by the stored task with its database id, when it
\* fails the entry is removed, every other task unchanged; a task with a
\* temporary id is in the list only while its addTask is pending.
C8_AddTaskOptimistic ==
    /\ [](\A i \in 1..Len(tasks) :
             IsTemp(tasks[i].id) =>
                 \E op \in taskOps : op.kind = "add" /\ op.id = tasks[i].id)
    /\ [][/\ \A op \in Started("add") :
                /\ Trim(op.text) # <<>>
                /\ IsTemp(op.id)
                /\ tasks' = <<[id |-> op.id, text |-> op.text, completed |-> FALSE]>>
                            \o tasks
                /\ remoteTasks' = remoteTasks
          /\ \A op \in Finished("add") :
                IF taskResult'.result = "ok"
                THEN \E row \in remoteTasks' \ remoteTasks :
                        /\ ~IsTemp(row.id)
                        /\ row.text = op.text
                        /\ OthersUnchanged(tasks, tasks', op.id)
                        /\ \A i \in 1..Len(tasks) : tasks[i].id = op.id => tasks'[i] = row
                ELSE /\ remoteTasks' = remoteTasks
                     /\ ~HasTask(tasks', op.id)
                     /\ Len(tasks') = Len(tasks) - 1
                     /\ \A i \in 1..Len(tasks) :
                           tasks[i].id # op.id => HasTask(tasks', tasks[i].id)
                              /\ TaskOf(tasks', tasks[i].id) = tasks[i]]_vars

\* an insert failed while another temporary task and a stored task were in the
\* list: both are still there and the failed entry is gone
C8_Witness ==
    /\ taskResult.op.kind = "add"
    /\ taskResult.result = "error"
    /\ ~HasTask(tasks, taskResult.op.id)
    /\ HasTask(tasks, StoredTask.id)
    /\ \E i \in 1..Len(tasks) : IsTemp(tasks[i].id)

\* C9: toggleTask(id) negates the completed flag of task id in the local list
\* while the update is pending and leaves every other task unchanged; when the
\* update reports an error the flag of task id is set to the value it had before
\* that toggle, every other task unchanged.
C9_ToggleOptimistic ==
    [][/\ \A op \in Started("toggle") :
             /\ HasTask(tasks, op.id)
             /\ op.prev = TaskOf(tasks, op.id).completed
             /\ OthersUnchanged(tasks, tasks', op.id)
             /\ \A i \in 1..Len(tasks) :
                   tasks[i].id = op.id =>
                       tasks'[i] = [tasks[i] EXCEPT !.completed = ~tasks[i].completed]
             /\ remoteTasks' = remoteTasks
       /\ \A op \in Finished("toggle") :
             taskResult'.result = "error" =>
                 /\ OthersUnchanged(tasks, tasks', op.id)
                 /\ \A i \in 1..Len(tasks) :
                       tasks[i].id = op.id =>
                           tasks'[i] = [tasks[i] EXCEPT !.completed = op.prev]]_vars

\* a toggle of the stored task ended with an error and the task, completed
\* while the update was pending, is uncompleted again
C9_Witness ==
    /\ taskResult.op.kind = "toggle"
    /\ taskResult.result = "error"
    /\ taskOps = {}
    /\ taskSeq = 1
    /\ HasTask(tasks, taskResult.op.id)
    /\ TaskOf(tasks, taskResult.op.id).completed = FALSE
    /\ taskResult.op.newCompleted = TRUE

\* C10 as stated: the deleteTask call removes the task from the local list at
\* once, before the outcome of the remote delete is known.
C10_RemovedImmediately ==
    [][\A op \in Started("delete") : ~HasTask(tasks', op.id)]_vars

\* C10, amended: the deleteTask call leaves the local list as it is while the
\* remote delete is pending; the task is removed when the delete has returned
\* without error, and the list is unchanged when it reports an error.
C10_RemovedAfterRemoteDelete ==
    [][/\ \A op \in Started("delete") : tasks' = tasks /\ HasTask(tasks', op.id)
       /\ \A op \in Finished("delete") :
             IF taskResult'.result = "ok"
             THEN /\ ~HasTask(tasks', op.id)
                  /\ \A i \in 1..Len(tasks) :
                        tasks[i].id # op.id => HasTask(tasks', tasks[i].id)
                           /\ TaskOf(tasks', tasks[i].id) = tasks[i]
             ELSE tasks' = tasks]_vars

\* a delete is pending and its task is still in the local list
C10_Witness ==
    \E op \in taskOps :
        /\ op.kind = "delete"
        /\ HasTask(tasks, op.id)
        /\ \E row \in remoteTasks : row.id = op.id

\* ------------------------------------- the database server: projects
\* the clock steps the behaviour takes: an hour, or seven days at once
TickSteps == {1, SEVEN_DAYS}

Tick(d) ==
    /\ ticks < MaxTicks
    /\ ticks' = ticks + 1
    /\ now' = now + d
    /\ dbLast' = [op |-> "tick", deleted |-> {}]
    /\ UNCHANGED <<projectsTable, notDbVars>>

\* insertTaskToDB: insert({ user_id, text, completed }) of a new task;
\* completed_at is not given and the trigger is BEFORE UPDATE only
InsertProject(id) ==
    /\ ~projectsTable[id].exists
    /\ projectsTable' = [projectsTable EXCEPT ![id] =
           [exists |-> TRUE, completed |-> FALSE, completed_at |-> NoTime]]
    /\ dbLast' = [op |-> "insert", deleted |-> {}]
    /\ UNCHANGED <<now, ticks, notDbVars>>

\* a trigger that records completions only
update_completed_at_KeepOnUncomplete(OLD, completed, t) ==
    IF completed /\ ~OLD.completed
    THEN [OLD EXCEPT !.completed = completed, !.completed_at = t]
    ELSE [OLD EXCEPT !.completed = completed]

\* update_completed_at(), the BEFORE UPDATE trigger: the NEW row for OLD and
\* the new value of completed, at time t
update_completed_at(OLD, completed, t) ==
    IF completed /\ ~OLD.completed
    THEN [OLD EXCEPT !.completed = completed, !.completed_at = t]
    ELSE IF ~completed /\ OLD.completed
         THEN [OLD EXCEPT !.completed = completed, !.completed_at = NoTime]
         ELSE [OLD EXCEPT !.completed = completed]

\* toggleTask's update({ completed: newCompleted }).eq('id', taskId)
UpdateProject(id, completed) ==
    /\ projectsTable[id].exists
    /\ projectsTable' = [projectsTable EXCEPT ![id] =
           update_completed_at(projectsTable[id], completed, now)]
    /\ dbLast' = [op |-> "update", deleted |-> {}]
    /\ UNCHANGED <<now, ticks, notDbVars>>

PurgeCondition_AtSevenDays(row, t) ==
    row.completed /\ row.completed_at # NoTime /\ row.completed_at <= t - SEVEN_DAYS

\* WHERE completed = true AND completed_at IS NOT NULL
\*   AND completed_at < NOW() - INTERVAL '7 days'
PurgeCondition(row, t) ==
    row.completed /\ row.completed_at # NoTime /\ row.completed_at < t - SEVEN_DAYS

\* delete_old_completed_tasks(), when somebody executes it: the repository
\* defines the function and nothing in it calls or schedules it
delete_old_completed_tasks ==
    LET deleted == {id \in ProjectIds :
                       projectsTable[id].exists /\ PurgeCondition(projectsTable[id], now)}
    IN /\ projectsTable' = [id \in ProjectIds |->
              IF id \in deleted THEN NoProject ELSE projectsTable[id]]
       /\ dbLast' = [op |-> "purge", deleted |-> deleted]
       /\ UNCHANGED <<now, ticks, notDbVars>>

TickAny == \E d \in TickSteps : Tick(d)

DbNext ==
    \/ TickAny
    \/ \E id \in ProjectIds : InsertProject(id)
    \/ \E id \in ProjectIds, completed \in BOOLEAN : UpdateProject(id, completed)
    \/ delete_old_completed_tasks

\* the projects table with a manual delete_old_completed_tasks()
SpecDb == Init /\ [][DbNext]_vars

\* the same with time passing; no fairness for the purge, which nothing runs,
\* nor for the updates, which are the user's choice
SpecDbFair == SpecDb /\ WF_vars(TickAny)

\* ------------------------------------------- properties of the purge
\* the row is completed and its completion is more than 7 days in the past
OldCompleted(id) ==
    /\ projectsTable[id].exists
    /\ projectsTable[id].completed
    /\ projectsTable[id].completed_at # NoTime
    /\ now - projectsTable[id].completed_at > SEVEN_DAYS

\* C11: a task that stays completed is eventually deleted from the projects
\* table once 7 days have passed since its completion, by the server alone:
\* a row completed more than 7 days ago is eventually gone (or no longer
\* completed).
C11_CompletedTaskEventuallyPurged ==
    \A id \in ProjectIds : [](OldCompleted(id) => <>(~OldCompleted(id)))

\* C12: delete_old_completed_tasks deletes exactly the rows whose completed
\* flag is true and whose completed_at is more than 7 days in the past; an
\* uncompleted row, a row completed 7 days ago or less and a row with a null
\* completed_at are left as they are.
C12_PurgesExactlyOldCompleted ==
    [][dbLast'.op = "purge" =>
        \A id \in ProjectIds :
            IF OldCompleted(id)
            THEN ~projectsTable'[id].exists
            ELSE projectsTable'[id] = projectsTable[id]]_vars

\* a purge deleted a row and kept a row completed exactly 7 days before, a
\* row with a null completed_at or an uncompleted row
C12_Witness ==
    /\ dbLast.op = "purge"
    /\ dbLast.deleted # {}
    /\ \E id \in ProjectIds :
        /\ projectsTable[id].exists
        /\ projectsTable[id].completed
        /\ now - projectsTable[id].completed_at = SEVEN_DAYS

\* ------------------------------------------------- the file provider
StillValid_AtExpiry(f, t) == f.expires_at >= t

\* data.filter(f => new Date(f.expires_at) > new Date())
StillValid(f, t) == f.expires_at > t

RECURSIVE FormattedFiles(_, _, _)
\* the selected rows (created_at descending) that are still valid at time t,
\* formatted for the frontend
FormattedFiles(data, t, n) ==
    IF n = 0 THEN <<>>
    ELSE (IF data[n].exists /\ StillValid(data[n], t)
          THEN <<[id |-> n, expiresAt |-> data[n].expires_at]>>
          ELSE <<>>) \o FormattedFiles(data, t, n - 1)

\* cleanup_expired_files(): WHERE expires_at < timezone('utc', now())
cleanup_expired_files(table, t) ==
    [id \in FileIds |-> IF table[id].exists /\ table[id].expires_at < t
                        THEN NoFile ELSE table[id]]

LoadFiles ==
    /\ fileLoad.pc = "idle"
    /\ fileOps < MaxFileOps
    /\ fileOps' = fileOps + 1
    /\ filesLoading' = TRUE
    /\ fileLoad' = [fileLoad EXCEPT !.pc = "cleanup"]
    /\ UNCHANGED <<files, filesTable, fileAdd, now, ticks, storageObjects, notFileVars>>

\* await supabase.rpc('cleanup_expired_files') ran on the server
LoadFilesCleanup ==
    /\ fileLoad.pc = "cleanup"
    /\ filesTable' = cleanup_expired_files(filesTable, now)
    /\ storageObjects' = storageObjects \
           {id \in FileIds : filesTable[id].exists /\ ~filesTable'[id].exists}
    /\ fileLoad' = [fileLoad EXCEPT !.pc = "select"]
    /\ UNCHANGED <<files, filesLoading, fileAdd, fileOps, now, ticks, notFileVars>>

\* the rpc returned an error: its result is not looked at
LoadFilesCleanupFailed ==
    /\ fileLoad.pc = "cleanup"
    /\ fileLoad' = [fileLoad EXCEPT !.pc = "select"]
    /\ UNCHANGED <<files, filesLoading, filesTable, fileAdd, fileOps, now, ticks,
                   storageObjects, notFileVars>>

\* from('files').select('*').order('created_at', { ascending: false })
LoadFilesSelect ==
    /\ fileLoad.pc = "select"
    /\ fileLoad' = [fileLoad EXCEPT !.pc = "filter", !.data = filesTable]
    /\ UNCHANGED <<files, filesLoading, filesTable, fileAdd, fileOps, now, ticks,
                   storageObjects, notFileVars>>

\* if (error) return; finally setIsLoading(false)
LoadFilesFailed ==
    /\ fileLoad.pc = "select"
    /\ filesLoading' = FALSE
    /\ fileLoad' = [NoFileLoad EXCEPT !.at = now, !.outcome = "error"]
    /\ UNCHANGED <<files, filesTable, fileAdd, fileOps, now, ticks, storageObjects, notFileVars>>

\* the response arrived: filter, format, setFiles; finally setIsLoading(false)
LoadFilesDone ==
    /\ fileLoad.pc = "filter"
    /\ files' = FormattedFiles(fileLoad.data, now, MaxFileOps)
    /\ filesLoading' = FALSE
    /\ fileLoad' = [NoFileLoad EXCEPT !.at = now, !.outcome = "ok"]
    /\ UNCHANGED <<filesTable, fileAdd, fileOps, now, ticks, storageObjects, notFileVars>>

\* new Date(Date.now() + FILE_EXPIRATION_TIME)
ExpiresAt(t) == t + FILE_EXPIRATION_TIME

AddFile ==
    /\ fileAdd.pc = "idle"
    /\ fileOps < MaxFileOps
    /\ fileOps' = fileOps + 1
    /\ filesLoading' = TRUE
    /\ fileAdd' = [NoFileAdd EXCEPT !.pc = "upload", !.id = fileOps + 1]
    /\ UNCHANGED <<files, filesTable, fileLoad, now, ticks, storageObjects, notFileVars>>

\* if (uploadError) return
AddFileUploadFailed ==
    /\ fileAdd.pc = "upload"
    /\ filesLoading' = FALSE
    /\ fileAdd' = NoFileAdd
    /\ UNCHANGED <<files, filesTable, fileLoad, fileOps, now, ticks, storageObjects, notFileVars>>

\* the upload is done, the object is in the bucket: fileData is built and
\* the insert is sent
AddFileUploaded ==
    /\ fileAdd.pc = "upload"
    /\ storageObjects' = storageObjects \cup {fileAdd.id}
    /\ fileAdd' = [fileAdd EXCEPT !.pc = "insert", !.expires_at = ExpiresAt(now),
                                  !.uploaded_at = now]
    /\ UNCHANGED <<files, filesLoading, filesTable, fileLoad, fileOps, now, ticks,
                   notFileVars>>

\* the row is stored and returned: setFiles(prev => [newFile, ...prev])
AddFileInserted ==
    /\ fileAdd.pc = "insert"
    /\ filesTable' = [filesTable EXCEPT ![fileAdd.id] =
           [exists |-> TRUE, expires_at |-> fileAdd.expires_at,
            uploaded_at |-> fileAdd.uploaded_at]]
    /\ files' = <<[id |-> fileAdd.id, expiresAt |-> fileAdd.expires_at]>> \o files
    /\ filesLoading' = FALSE
    /\ fileAdd' = NoFileAdd
    /\ UNCHANGED <<fileLoad, fileOps, now, ticks, storageObjects, notFileVars>>

\* if (dbError): the request that removes the uploaded object is sent
AddFileInsertFailed ==
    /\ fileAdd.pc = "insert"
    /\ fileAdd' = [fileAdd EXCEPT !.pc = "remove"]
    /\ UNCHANGED <<files, filesLoading, filesTable, fileLoad, fileOps, now, ticks,
                   storageObjects, notFileVars>>

\* storage.remove([filePath]) removed the object: return; finally
\* setIsLoading(false)
AddFileObjectRemoved ==
    /\ fileAdd.pc = "remove"
    /\ storageObjects' = storageObjects \ {fileAdd.id}
    /\ filesLoading' = FALSE
    /\ fileAdd' = NoFileAdd
    /\ UNCHANGED <<files, filesTable, fileLoad, fileOps, now, ticks, notFileVars>>

\* storage.remove([filePath]) returned an error: its result is not looked
\* at; return; finally setIsLoading(false)
AddFileRemoveFailed ==
    /\ fileAdd.pc = "remove"
    /\ filesLoading' = FALSE
    /\ fileAdd' = NoFileAdd
    /\ UNCHANGED <<files, filesTable, fileLoad, fileOps, now, ticks, storageObjects,
                   notFileVars>>

\* the clock steps of the file behaviours: an hour, or an hour less than a day
FileTickSteps == {1, FILE_EXPIRATION_TIME - 1}

FilesNext ==
    \/ \E d \in FileTickSteps : Tick(d)
    \/ LoadFiles
    \/ LoadFilesCleanup
    \/ LoadFilesCleanupFailed
    \/ LoadFilesSelect
    \/ LoadFilesFailed
    \/ LoadFilesDone
    \/ AddFile
    \/ AddFileUploadFailed
    \/ AddFileUploaded
    \/ AddFileInserted
    \/ AddFileInsertFailed
    \/ AddFileObjectRemoved
    \/ AddFileRemoveFailed

SpecFiles == Init /\ [][FilesNext]_vars

\* C13: every file stored through addFile has an expiry of its upload time
\* plus 24 hours, and the list a successful loadFiles sets holds no file whose
\* expiry is at or before the time of that load, whether or not
\* cleanup_expired_files removed it on the server.
C13_ExpiryAndLoadFilter ==
    /\ [](\A id \in FileIds :
            filesTable[id].exists =>
                filesTable[id].expires_at = filesTable[id].uploaded_at + 24)
    /\ [][fileLoad.pc = "filter" /\ fileLoad'.pc = "idle" =>
            \A i \in 1..Len(files') : files'[i].expiresAt > now']_vars

\* a load succeeded at the very hour a stored file expires: the row is still
\* on the server and the file is not in the local list
C13_Witness ==
    /\ fileLoad.outcome = "ok"
    /\ fileLoad.at = now
    /\ \E id \in FileIds :
        /\ filesTable[id].exists
        /\ filesTable[id].expires_at = now
        /\ \A i \in 1..Len(files) : files[i].id # id

\* ------------------------------------------------ useAuth: updateUser
\* the names updateUser is called with ('' stands for no name given)
NameInputs == {"", "B"}
AuthNotUpd == <<user, authMeta, authEvent, updCalls>>

UpdateUser(name) ==
    /\ upd.pc \in {"idle", "done"}
    /\ updCalls < MaxUpdates
    /\ updCalls' = updCalls + 1
    /\ upd' = [NoUpd EXCEPT !.pc = "session", !.name = name, !.userBefore = user]
    /\ UNCHANGED <<user, authMeta, authEvent, notAuthVars>>

Return(success, error) ==
    upd' = [upd EXCEPT !.pc = "done", !.result = [success |-> success, error |-> error]]

\* if (sessionError) return { success: false, error: 'Authentication session error' }
UpdateUserSessionError ==
    /\ upd.pc = "session"
    /\ Return(FALSE, "Authentication session error")
    /\ UNCHANGED <<AuthNotUpd, notAuthVars>>

\* if (!sessionData.session?.user) return { success: false, error: 'No authenticated user' }
UpdateUserNoSession ==
    /\ upd.pc = "session"
    /\ Return(FALSE, "No authenticated user")
    /\ UNCHANGED <<AuthNotUpd, notAuthVars>>

\* currentUser and updates.data: name = updatedUser.name || user_metadata.name || ''
UpdateUserSession ==
    /\ upd.pc = "session"
    /\ upd' = [upd EXCEPT !.pc = "loop",
                          !.currentUser = authMeta,
                          !.updates = [name |-> IF upd.name # "" THEN upd.name
                                                ELSE authMeta.name]]
    /\ UNCHANGED <<AuthNotUpd, notAuthVars>>

\* while (updateAttempts < maxAttempts) { updateAttempts++; await updateUser(updates)
AuthUpdateCall ==
    /\ upd.pc = "loop"
    /\ upd.updateAttempts < maxAttempts
    /\ upd' = [upd EXCEPT !.pc = "update", !.updateAttempts = @ + 1]
    /\ UNCHANGED <<AuthNotUpd, notAuthVars>>

\* if (error): lastError = error; retry after a second, or break after the last
AuthUpdateError(msg) ==
    /\ upd.pc = "update"
    /\ upd' = [upd EXCEPT !.outcomes = Append(@, "error"),
                          !.lastError = msg,
                          !.pc = IF upd.updateAttempts < maxAttempts THEN "loop" ELSE "exit"]
    /\ UNCHANGED <<AuthNotUpd, notAuthVars>>

\* the call threw: catch (attemptError) { lastError = attemptError; ... }
AuthUpdateThrew(msg) ==
    /\ upd.pc = "update"
    /\ upd' = [upd EXCEPT !.outcomes = Append(@, "throw"), !.lastError = msg,
                          !.pc = "loop"]
    /\ UNCHANGED <<AuthNotUpd, notAuthVars>>

\* no error and no data.user: break
AuthUpdateNoUser ==
    /\ upd.pc = "update"
    /\ upd' = [upd EXCEPT !.outcomes = Append(@, "nouser"), !.pc = "exit"]
    /\ UNCHANGED <<AuthNotUpd, notAuthVars>>

\* the auth server applied the update and answered with the user; it emits
\* USER_UPDATED
AuthUpdateOk ==
    /\ upd.pc = "update"
    /\ authMeta' = [name |-> upd.updates.name]
    /\ authEvent' = TRUE
    /\ upd' = [upd EXCEPT !.outcomes = Append(@, "ok"), !.pc = "verify",
                          !.verifyAttempt = 1]
    /\ UNCHANGED <<user, updCalls, notAuthVars>>

\* the end of one iteration of the verification loop that did not verify;
\* after the last one: return { success: true }
NextVerification ==
    IF upd.verifyAttempt < maxVerifyAttempts
    THEN upd' = [upd EXCEPT !.verifyAttempt = @ + 1]
    ELSE Return(TRUE, NoError)

\* getUser() returned an error (continue) or no user
VerifyFailed ==
    /\ upd.pc = "verify"
    /\ NextVerification
    /\ UNCHANGED <<AuthNotUpd, notAuthVars>>

\* getUser() returned the user: hasChanges compares the metadata with currentUser's
VerifyReturned ==
    /\ upd.pc = "verify"
    /\ IF authMeta # upd.currentUser
       THEN /\ user' = formatUserFromSupabase(authMeta)
            /\ Return(TRUE, NoError)
       ELSE /\ NextVerification
            /\ UNCHANGED user
    /\ UNCHANGED <<authMeta, authEvent, updCalls, notAuthVars>>

\* getUser() threw: the catch of the update attempt takes it
VerifyThrew(msg) ==
    /\ upd.pc = "verify"
    /\ upd' = [upd EXCEPT !.lastError = msg, !.pc = "loop"]
    /\ UNCHANGED <<AuthNotUpd, notAuthVars>>

\* after the loop: return { success: false, error: lastError ? lastError.message : ... }
UpdateUserFailed ==
    /\ \/ upd.pc = "exit"
       \/ upd.pc = "loop" /\ upd.updateAttempts >= maxAttempts
    /\ Return(FALSE, IF upd.lastError # NoError THEN upd.lastError
                     ELSE "All auth update attempts failed")
    /\ UNCHANGED <<AuthNotUpd, notAuthVars>>

\* onAuthStateChange, event USER_UPDATED: setUser(prev => changed ? formatted : prev)
UserUpdatedEvent ==
    /\ authEvent
    /\ authEvent' = FALSE
    /\ user' = formatUserFromSupabase(authMeta)
    /\ UNCHANGED <<authMeta, upd, updCalls, notAuthVars>>

AuthNext ==
    \/ \E name \in NameInputs : UpdateUser(name)
    \/ UpdateUserSessionError
    \/ UpdateUserNoSession
    \/ UpdateUserSession
    \/ AuthUpdateCall
    \/ \E msg \in ErrorMessages : AuthUpdateError(msg)
    \/ \E msg \in ErrorMessages : AuthUpdateThrew(msg)
    \/ AuthUpdateNoUser
    \/ AuthUpdateOk
    \/ VerifyFailed
    \/ VerifyReturned
    \/ \E msg \in ErrorMessages : VerifyThrew(msg)
    \/ UpdateUserFailed
    \/ UserUpdatedEvent

SpecAuth == Init /\ [][AuthNext]_vars

\* the auth update attempt failed: it returned an error or threw
Failed(outcome) == outcome \in {"error", "throw"}

\* C14: updateUser calls the auth update at most 3 times; it calls it again
\* only after an attempt that returned an error or threw, so it stops at the
\* first attempt that returns without error; and when all 3 attempts fail it
\* returns success=false with the last error's message and the local user is
\* as it was before the call.
C14_RetriesOnlyAfterFailure ==
    /\ upd.updateAttempts <= 3
    /\ \A i \in 1..Len(upd.outcomes) :
           i < upd.updateAttempts => Failed(upd.outcomes[i])
    /\ (/\ upd.pc = "done"
        /\ Len(upd.outcomes) = 3
        /\ \A i \in 1..3 : Failed(upd.outcomes[i]))
       => /\ upd.result = [success |-> FALSE, error |-> upd.lastError]
          /\ user = upd.userBefore

\* ---------------------------------- the chats table: row-level security
PolicyExpr_Anyone(uid, row) == uid # NULL

\* auth.uid() = user_id; a comparison with NULL is not true
PolicyExpr(uid, row) == uid # NULL /\ uid = row.user_id

\* "Users can view their own chats" FOR SELECT USING (auth.uid() = user_id)
SelectUsing(uid, row) == PolicyExpr(uid, row)

\* "Users can insert their own chats" FOR INSERT WITH CHECK (auth.uid() = user_id)
InsertCheck(uid, row) == PolicyExpr(uid, row)

\* "Users can update their own chats" FOR UPDATE USING (auth.uid() = user_id);
\* without WITH CHECK the USING expression also checks the new row
UpdateUsing(uid, row) == PolicyExpr(uid, row)

\* "Users can delete their own chats" FOR DELETE USING (auth.uid() = user_id)
DeleteUsing(uid, row) == PolicyExpr(uid, row)

\* loadConversations in the session of user u: select('*') without a filter
\* of its own; the table answers with the rows the SELECT policy lets through
RlsLoadConversations(u) ==
    /\ sessionConversations' = [sessionConversations EXCEPT ![u] =
           {[id |-> id, user_id |-> chatsTable[id].user_id, body |-> chatsTable[id].body] :
               id \in {i \in ChatRowIds : chatsTable[i].exists /\ SelectUsing(u, chatsTable[i])}}]
    /\ rlsLast' = [NoStatement EXCEPT !.op = "select", !.uid = u]
    /\ UNCHANGED <<chatsTable, notRlsVars>>

\* upsert(chatData, { onConflict: 'id' }).select() sent with the token of uid:
\* an insert when no row has the id, otherwise an update of the existing row
RlsUpsert(uid, id, user_id, body) ==
    LET old == chatsTable[id]
        new == [exists |-> TRUE, user_id |-> user_id, body |-> body]
        allowed == IF old.exists
                   THEN /\ InsertCheck(uid, new)
                        /\ UpdateUsing(uid, old) /\ UpdateUsing(uid, new)
                        /\ SelectUsing(uid, old) /\ SelectUsing(uid, new)
                   ELSE InsertCheck(uid, new) /\ SelectUsing(uid, new)
    IN /\ chatsTable' = IF allowed THEN [chatsTable EXCEPT ![id] = new] ELSE chatsTable
       /\ rlsLast' = [op |-> IF allowed THEN "upsert" ELSE "rejected", uid |-> uid,
                      before |-> old, after |-> IF allowed THEN new ELSE old]
       /\ UNCHANGED <<sessionConversations, notRlsVars>>

\* delete().eq('id', id) sent with the token of uid: rows the DELETE policy
\* hides are not deleted
RlsDelete(uid, id) ==
    LET old == chatsTable[id]
        allowed == old.exists /\ DeleteUsing(uid, old) /\ SelectUsing(uid, old)
    IN /\ chatsTable' = IF allowed THEN [chatsTable EXCEPT ![id] = NoChat] ELSE chatsTable
       /\ rlsLast' = [op |-> IF allowed THEN "delete" ELSE "rejected", uid |-> uid,
                      before |-> old, after |-> IF allowed THEN NoChat ELSE old]
       /\ UNCHANGED <<sessionConversations, notRlsVars>>

RlsNext ==
    \/ \E u \in Users : RlsLoadConversations(u)
    \/ \E uid \in Users \cup {NULL}, id \in ChatRowIds, user_id \in Users, body \in Bodies :
           RlsUpsert(uid, id, user_id, body)
    \/ \E uid \in Users \cup {NULL}, id \in ChatRowIds : RlsDelete(uid, id)

SpecRls == Init /\ [][RlsNext]_vars

\* C15: under the policies every chats row a session selects, inserts,
\* updates or deletes has user_id equal to the session's user: the local
\* state of a session holds only conversations of its user, and a save or a
\* delete changes only rows of the session's user (before and after).
C15_OnlyOwnRows ==
    /\ \A u \in Users : \A c \in sessionConversations[u] : c.user_id = u
    /\ rlsLast.op \in {"upsert", "delete"} =>
        /\ rlsLast.uid \in Users
        /\ rlsLast.before.exists => rlsLast.before.user_id = rlsLast.uid
        /\ rlsLast.after.exists => rlsLast.after.user_id = rlsLast.uid
    /\ rlsLast.op = "rejected" => rlsLast.after = rlsLast.before

\* a session's upsert on the id of another user's row was rejected, and its
\* load returned its own conversation while another user's row exists
C15_Witness ==
    /\ rlsLast.op = "rejected"
    /\ rlsLast.uid \in Users
    /\ rlsLast.before.exists
    /\ rlsLast.before.user_id # rlsLast.uid
    /\ \E u \in Users :
        /\ sessionConversations[u] # {}
        /\ \E id \in ChatRowIds : chatsTable[id].exists /\ chatsTable[id].user_id # u

\* ------------------------------------ two sessions of the same user
\* the state of the first session's provider, which these behaviours leave alone
chatNotSaves == <<conversations, activeConversationId, isLoading, sendClosure, saveLost, selRefresh,
                  pendingDelete, sPc, send, gPc, gen, sends, selects, deletes, deletedIds>>
\* the conversation both sessions have open
SharedConversation == CHOOSE c \in StoredIds : TRUE

\* session t appends a message: updateConversation(id, conv => ({ ...conv,
\* messages: [...conv.messages, m] })), which calls saveConversationToDB
TabAppend(t) ==
    /\ tabAppends < MaxTabAppends
    /\ Room(1)
    /\ LET m == [id |-> <<saveSeq + 1, USER>>, sender |-> USER, text |-> <<"q">>]
           convs == tabConversations[t]
           updateFn == [conv \in ConvSet(convs) |-> AppendMessage(conv, m)]
           saves == UpdatedConversations(convs, SharedConversation, updateFn)
       IN /\ tabConversations' = [tabConversations EXCEPT ![t] =
                 MapConversation(convs, SharedConversation, updateFn)]
          /\ inflight' = inflight \cup IssueSaves(saves, saveSeq)
          /\ saveSeq' = saveSeq + Cardinality(saves)
    /\ tabAppends' = tabAppends + 1
    /\ UNCHANGED <<tabRead, remote, chatNotSaves, taskVars, dbVars, fileVars, authVars,
                   rlsVars, sessionVars, timeoutVars, titleVars>>

\* refreshConversationFromDB in session t: the select reads the row
TabRefreshRead(t) ==
    /\ ~tabRead[t].pending
    /\ tabRead' = [tabRead EXCEPT ![t] = [pending |-> TRUE, data |-> remote[SharedConversation]]]
    /\ UNCHANGED <<tabConversations, tabAppends, notTabVars>>

\* ... and the session's conversation is replaced by it
TabRefreshDone(t) ==
    /\ tabRead[t].pending
    /\ tabRead' = [tabRead EXCEPT ![t] = NoTabRead]
    /\ tabConversations' = [tabConversations EXCEPT ![t] =
           IF tabRead[t].data.exists
           THEN ReplaceFromRow(tabConversations[t], SharedConversation, tabRead[t].data)
           ELSE tabConversations[t]]
    /\ UNCHANGED <<tabAppends, notTabVars>>

TabsNext ==
    \/ \E t \in Tabs : TabAppend(t)
    \/ \E t \in Tabs : TabRefreshRead(t)
    \/ \E t \in Tabs : TabRefreshDone(t)
    \/ \E s \in inflight : SaveApply(s)
    \/ \E s \in inflight : SaveFail(s)

SpecTabs == Init /\ [][TabsNext]_vars

\* C16: with two sessions of the same user appending to the same conversation,
\* every save carries the whole message list of the session that issued it
\* and, once applied (a save that leaves the requests in flight while no save
\* has failed), the row is exactly that payload, so a message the other
\* session stored can be lost.
C16_RowIsLastAppliedPayload ==
    [][/\ \A s \in inflight' \ inflight :
            \E t \in Tabs : s.conv = ConvOf(tabConversations'[t], s.conv.id)
       /\ \A s \in inflight \ inflight' :
            ~saveLost' =>
                /\ remote'[s.conv.id].messages = s.conv.messages
                /\ remote'[s.conv.id].title = s.conv.title]_vars

\* every save has been applied and none failed, and a message a session
\* appended (so one that was stored) is absent from the row
C16_Witness ==
    /\ inflight = {}
    /\ ~saveLost
    /\ tabAppends = 2
    /\ \E t \in Tabs :
        \E i \in 1..Len(ConvOf(tabConversations[t], SharedConversation).messages) :
            ConvOf(tabConversations[t], SharedConversation).messages[i].id
                \notin MsgIds(remote[SharedConversation].messages)

\* ---------------------------------------- the history sent to the model
\* every message with non-blank text, in order, user -> 'user' and
\* assistant -> 'model'
ExpectedHistory(msgs) ==
    LET kept == SelectSeq(msgs, LAMBDA m : Trim(m.text) # <<>>)
    IN [i \in 1..Len(kept) |->
           [role |-> IF kept[i].sender = USER THEN "user" ELSE "model",
            content |-> kept[i].text]]

\* C17: for a message sent in a conversation that already has earlier
\* messages, the history passed to generateResponseStream is every earlier
\* message of that conversation with non-blank text, in order, with the roles
\* mapped and without the new placeholder; for the second and every later
\* message as for the first.
C17_HistoryIsEarlierMessages ==
    [][(/\ sPc = "idle"
        /\ sPc' = "stream"
        /\ HasConv(conversations, activeConversationId)
        /\ ConvOf(conversations, activeConversationId).messages # <<>>)
       => send'.history =
              ExpectedHistory(ConvOf(conversations, activeConversationId).messages)]_vars

\* ------------------------------- ChatProvider across sign-out and sign-in
\* the provider's state that sign-in, sign-out and loadConversations leave alone
chatNotLoaded == <<isLoading, remote, inflight, saveSeq, saveLost, selRefresh,
                   pendingDelete, sPc, send, gPc, gen, sends, selects, deletes, deletedIds>>
authNotUser == <<authMeta, authEvent, upd, updCalls>>

\* onAuthStateChange SIGNED_OUT: setUser(null); the effect runs
\* loadConversations, whose `if (!user)` branch empties the list and clears
\* the active id
SignedOut ==
    /\ user # NoUser
    /\ user' = NoUser
    /\ conversations' = <<>>
    /\ activeConversationId' = NULL
    /\ sendClosure' = conversations'
    /\ UNCHANGED <<loadReqs, signIns, chatNotLoaded, authNotUser, taskVars, dbVars,
                   fileVars, rlsVars, tabVars, timeoutVars, titleVars>>

\* onAuthStateChange SIGNED_IN: setUser(formattedUser); the effect runs
\* loadConversations, which sends its select
SignedIn ==
    /\ user = NoUser
    /\ signIns < MaxSignIns
    /\ signIns' = signIns + 1
    /\ user' = formatUserFromSupabase(authMeta)
    /\ sendClosure' = conversations
    /\ loadReqs' = loadReqs \cup {[n |-> signIns + 1, read |-> FALSE, data |-> <<>>]}
    /\ UNCHANGED <<conversations, activeConversationId, chatNotLoaded, authNotUser,
                   taskVars, dbVars, fileVars, rlsVars, tabVars, timeoutVars, titleVars>>

\* the table answers the select with the user's rows, newest first
LoadRead(l) ==
    /\ l \in loadReqs
    /\ ~l.read
    /\ loadReqs' = (loadReqs \ {l}) \cup
           {[l EXCEPT !.read = TRUE, !.data = RowsDescending(remote, Cardinality(ConvIds))]}
    /\ UNCHANGED <<signIns, chatVars, authVars, taskVars, dbVars, fileVars, rlsVars,
                   tabVars, timeoutVars, titleVars>>

\* the answer arrives: setConversations(formattedConversations)
LoadDone(l) ==
    /\ l \in loadReqs
    /\ l.read
    /\ loadReqs' = loadReqs \ {l}
    /\ conversations' = l.data
    /\ UNCHANGED <<activeConversationId, sendClosure, signIns, chatNotLoaded, authVars,
                   taskVars, dbVars, fileVars, rlsVars, tabVars, timeoutVars, titleVars>>

\* the select returned an error or threw: it is logged
LoadFailed(l) ==
    /\ l \in loadReqs
    /\ loadReqs' = loadReqs \ {l}
    /\ UNCHANGED <<signIns, chatVars, authVars, taskVars, dbVars, fileVars, rlsVars,
                   tabVars, timeoutVars, titleVars>>

SessionNext ==
    \/ SignedOut
    \/ SignedIn
    \/ \E l \in loadReqs : LoadRead(l)
    \/ \E l \in loadReqs : LoadDone(l)
    \/ \E l \in loadReqs : LoadFailed(l)
    \/ \E id \in ConvIds : SelectConversation(id)
    \/ \E r \in selRefresh : SelectRefreshRead(r)
    \/ \E r \in selRefresh : SelectRefreshDone(r)
    \/ StartNewChat

SpecSession == Init /\ [][SessionNext]_vars

\* ===================================================================
\* sendMessage with a response timeout, called from ChatInput
\* ===================================================================
\* The call works in the active conversation; toText[k] is the text of the
\* assistant message the k-th call appended. The reads of
\* refreshConversationFromDB are taken to return the local conversation.
TimeoutCalls == 1..MaxTimeoutSends
InputTexts == {<<>>, <<" ">>, <<"q">>}

\* ChatInput.handleSendMessage returns without sending when the input is
\* blank with no attachment, or while isLoading
Dispatched(text, file) == ~((Trim(text) = <<>> /\ ~file) \/ toIsLoading)

\* ChatInput.handleSendMessage -> ChatInterface.handleSendMessage ->
\* sendMessage(text, file): setIsLoading(true); with a file, the file is
\* processed first
ChatInputSend(text, file) ==
    /\ toSends < MaxTimeoutSends
    /\ Dispatched(text, file)
    /\ toSends' = toSends + 1
    /\ toIsLoading' = TRUE
    /\ toCall' = [toCall EXCEPT ![toSends + 1] =
                     [NoCall EXCEPT !.pc = IF file THEN "file" ELSE "refresh",
                                    !.text = text, !.file = file]]
    /\ UNCHANGED <<toText, notTimeoutVars>>

\* fileToBase64 or uploadFile threw: catch { setIsLoading(false); return; }
FileProcessingFailed(k) ==
    /\ toCall[k].pc = "file"
    /\ toCall' = [toCall EXCEPT ![k].pc = "done"]
    /\ toIsLoading' = FALSE
    /\ UNCHANGED <<toText, toSends, notTimeoutVars>>

\* the file was read and uploaded: the user message and the empty assistant
\* message are appended
FileProcessed(k) ==
    /\ toCall[k].pc = "file"
    /\ toCall' = [toCall EXCEPT ![k].pc = "refresh"]
    /\ UNCHANGED <<toIsLoading, toText, toSends, notTimeoutVars>>

\* after the refresh and the 50 ms delay: generateResponseStream(...), the
\* consuming loop is started and raced against the 30 s timer
StreamStarted(k) ==
    /\ toCall[k].pc = "refresh"
    /\ toCall' = [toCall EXCEPT ![k].pc = "race", ![k].stream = "open"]
    /\ UNCHANGED <<toIsLoading, toText, toSends, notTimeoutVars>>

\* for await (const chunk of stream): hasReceivedChunk = true; fullResponse
\* += chunk; updateConversation sets the message text. The loop runs in its
\* own async function: it goes on whether or not the race is still awaited
StreamChunk(k) ==
    LET chunk == ChunkText(toCall[k].chunks + 1)
        fullResponse == Accumulate(toCall[k].fullResponse, chunk)
    IN /\ toCall[k].stream = "open"
       /\ toCall[k].chunks < MaxChunks
       /\ toCall' = [toCall EXCEPT ![k].hasReceivedChunk = TRUE,
                                   ![k].fullResponse = fullResponse,
                                   ![k].chunks = toCall[k].chunks + 1]
       /\ toText' = [toText EXCEPT ![k] = fullResponse]
       /\ UNCHANGED <<toIsLoading, toSends, notTimeoutVars>>

\* the generator returned: the loop ends and streamPromise resolves
StreamDone(k) ==
    /\ toCall[k].stream = "open"
    /\ toCall' = [toCall EXCEPT ![k].stream = "ended"]
    /\ UNCHANGED <<toIsLoading, toText, toSends, notTimeoutVars>>

\* catch (error): the message text becomes the apology; finally:
\* setIsLoading(false)
CatchAndFinally(k) ==
    /\ toText' = [toText EXCEPT ![k] = APOLOGY]
    /\ toIsLoading' = FALSE

\* Promise.race settled with streamPromise: without any chunk an error is
\* thrown, otherwise the title and the final refresh follow
RaceWonByStream(k) ==
    /\ toCall[k].pc = "race"
    /\ toCall[k].stream = "ended"
    /\ IF ~toCall[k].hasReceivedChunk
       THEN /\ CatchAndFinally(k)
            /\ toCall' = [toCall EXCEPT ![k].pc = "done"]
       ELSE /\ toCall' = [toCall EXCEPT ![k].pc = "final"]
            /\ UNCHANGED <<toIsLoading, toText>>
    /\ UNCHANGED <<toSends, notTimeoutVars>>

\* Promise.race settled with timeoutPromise: reject(new Error('Response
\* timeout')) after 30 s with the stream still open
RaceWonByTimeout(k) ==
    /\ toCall[k].pc = "race"
    /\ toCall[k].stream = "open"
    /\ CatchAndFinally(k)
    /\ toCall' = [toCall EXCEPT ![k].pc = "done", ![k].timedOut = TRUE]
    /\ UNCHANGED <<toSends, notTimeoutVars>>

\* generateTitle and the final refresh have returned: finally
\* setIsLoading(false)
SendReturned(k) ==
    /\ toCall[k].pc = "final"
    /\ toCall' = [toCall EXCEPT ![k].pc = "done"]
    /\ toIsLoading' = FALSE
    /\ UNCHANGED <<toText, toSends, notTimeoutVars>>

TimeoutNext ==
    \/ \E text \in InputTexts, file \in BOOLEAN : ChatInputSend(text, file)
    \/ \E k \in TimeoutCalls : FileProcessingFailed(k)
    \/ \E k \in TimeoutCalls : FileProcessed(k)
    \/ \E k \in TimeoutCalls : StreamStarted(k)
    \/ \E k \in TimeoutCalls : StreamChunk(k)
    \/ \E k \in TimeoutCalls : StreamDone(k)
    \/ \E k \in TimeoutCalls : RaceWonByStream(k)
    \/ \E k \in TimeoutCalls : RaceWonByTimeout(k)
    \/ \E k \in TimeoutCalls : SendReturned(k)

SpecTimeout == Init /\ [][TimeoutNext]_vars

\* ===================================================================
\* generateTitle (geminiService)
\* ===================================================================
TitleChars == {"\"", "*", "#", " ", "a"}
TitleTexts == UNION {[1..n -> TitleChars] : n \in 0..MaxTitleLen}
TitleResponses == {NoResponse} \cup {[ok |-> TRUE, text |-> t] : t \in TitleTexts}

\* text.replace(/["*#]/g, '')
RECURSIVE ReplaceMarks(_)
ReplaceMarks(text) ==
    IF text = <<>> THEN <<>>
    ELSE IF Head(text) \in {"\"", "*", "#"} THEN ReplaceMarks(Tail(text))
    ELSE <<Head(text)>> \o ReplaceMarks(Tail(text))

TitleText_TrimFirst(text) == ReplaceMarks(Trim(text))

\* response.text.replace(/["*#]/g, '').trim()
TitleText(text) == Trim(ReplaceMarks(text))

\* for (const model of models) { try { ... return ... } catch { if (model ===
\* BACKUP_MODEL) return "New Conversation"; } } return "New Conversation";
\* responses[i] is what the i-th model does with the request
RECURSIVE TitleFromModel(_, _)
TitleFromModel(responses, i) ==
    IF i > Len(models) THEN <<DefaultTitle>>
    ELSE IF responses[i].ok THEN TitleText(responses[i].text)
    ELSE IF models[i] = BACKUP_MODEL THEN <<DefaultTitle>>
    ELSE TitleFromModel(responses, i + 1)

generateTitle(responses) == TitleFromModel(responses, 1)

GenerateTitle(responses) ==
    /\ ~titleCall.done
    /\ titleCall' = [done |-> TRUE, responses |-> responses,
                     result |-> generateTitle(responses)]
    /\ UNCHANGED notTitleVars

\* one call in a behaviour, with whatever the two models do
TitleNext ==
    /\ ~titleCall.done
    /\ \E r1, r2 \in TitleResponses : GenerateTitle(<<r1, r2>>)

SpecTitle == Init /\ [][TitleNext]_vars

C19_LoadingEventuallyCleared == isLoading ~> ~isLoading

\* C20: once deleteConversation(id) has succeeded, conversation id is in
\* neither the local list nor the chats table and stays out of both, whatever
\* saves were issued before the delete and whatever chunks of a stream running
\* in it still arrive; and a delete that reports an error leaves the local
\* list and the active conversation as they were
C20_DeletedStaysAbsent ==
    /\ [](\A id \in deletedIds : ~HasConv(conversations, id) /\ ~remote[id].exists)
    /\ [][(pendingDelete' # pendingDelete /\ pendingDelete' \subseteq pendingDelete
            /\ deletedIds' = deletedIds) =>
              (conversations' = conversations
               /\ activeConversationId' = activeConversationId)]_vars

\* C21: in every reachable state the active conversation id is null or the id
\* of a conversation of the local list, however selectConversation,
\* startNewChat, sendMessage and deleteConversation interleave
C21_ActiveIsListed ==
    activeConversationId = NULL \/ HasConv(conversations, activeConversationId)

\* C22: the text of the assistant message comes from one model attempt: once
\* the primary model has yielded chunks and then failed, neither the backup
\* model's chunks nor the apology are appended to them in the same message
\* (gen.source names, chunk by chunk, what the accumulated text was yielded by)
C22_TextFromOneAttempt ==
    \A i, j \in DOMAIN gen.source : gen.source[i] = gen.source[j]

\* C23: ChatInput dispatches a send only while isLoading is false and with a
\* non-blank text or an attachment, so that no sendMessage starts while the
\* stream of an earlier sendMessage is still being consumed
C23_NoSendWhileStreamConsumed ==
    [][toSends' # toSends =>
          /\ ~toIsLoading
          /\ Trim(toCall'[toSends'].text) # <<>> \/ toCall'[toSends'].file
          /\ \A k \in TimeoutCalls : toCall[k].stream # "open"]_vars

\* C30: once the timeout has fired and the assistant message holds the
\* apology, it keeps holding it whatever the abandoned stream yields later;
\* and a stream that ended without a chunk leaves the apology as well
C30_ApologyStays ==
    \A k \in TimeoutCalls :
        /\ toCall[k].timedOut => toText[k] = APOLOGY
        /\ (toCall[k].pc = "done" /\ toCall[k].stream = "ended"
              /\ ~toCall[k].hasReceivedChunk) => toText[k] = APOLOGY

\* C24: generateTitle always returns: the text of the first model that
\* answered, without the characters ", * and # and then trimmed, or "New
\* Conversation" when the primary and the backup attempt both failed
C24_TitleCleanedOrDefault ==
    titleCall.done =>
        LET answered == {i \in 1..2 : titleCall.responses[i].ok}
            first == CHOOSE i \in answered : \A j \in answered : i <= j
            kept(c) == c \notin {"\"", "*", "#"}
        IN IF answered = {} THEN titleCall.result = <<DefaultTitle>>
           ELSE titleCall.result =
                    Trim(SelectSeq(titleCall.responses[first].text, kept))

\* the primary attempt failed and the backup model answered a text that had
\* both characters to remove and blanks to trim
C24_Witness ==
    /\ titleCall.done
    /\ ~titleCall.responses[1].ok
    /\ titleCall.responses[2].ok
    /\ titleCall.responses[2].text = <<"\"", " ", "a">>
    /\ titleCall.result = <<"a">>

\* C25: sendMessage asks for a generated title only for the conversation the
\* same call created, only once the stream has ended and only with a non-empty
\* accumulated response; and no step of sendMessage changes the title of a
\* conversation that existed before the call
C25_TitleOnlyForCreated ==
    /\ [](sPc = "title" =>
            /\ send.needsTitle
            /\ gPc = "done"
            /\ send.fullResponse # <<>>)
    /\ [][SendMessageStep =>
            \A id \in ConvIds :
                (/\ HasConv(conversations, id)
                 /\ HasConv(conversations', id)
                 /\ ~(send'.needsTitle /\ send'.conversationId = id)) =>
                    ConvOf(conversations', id).title = ConvOf(conversations, id).title]_vars

\* C26: a row inserted by addTask and changed only by updates has a
\* completed_at exactly while it is completed: the update that completes it
\* stores the time of that update, also when it is completed again later, and
\* the update that uncompletes it clears the column
C26_CompletedAtFollowsCompleted ==
    /\ [](\A id \in ProjectIds :
            (projectsTable[id].exists /\ id # 1) =>
                (projectsTable[id].completed_at # NoTime <=> projectsTable[id].completed))
    /\ [][dbLast'.op = "update" =>
            \A id \in ProjectIds :
                LET old == projectsTable[id]
                    new == projectsTable'[id]
                IN (id # 1 /\ old # new) =>
                      /\ (~old.completed /\ new.completed) => new.completed_at = now
                      /\ (old.completed /\ ~new.completed) => new.completed_at = NoTime]_vars

\* an inserted task has just been completed at a time later than its insertion
C26_Witness ==
    /\ dbLast.op = "update"
    /\ projectsTable[2].exists
    /\ projectsTable[2].completed
    /\ projectsTable[2].completed_at = now
    /\ now > SEVEN_DAYS

\* C27: once every toggleTask call issued for a task has completed, with a
\* successful update or a reported error, calls that overlapped included, the
\* completed flag of the task in the local list equals the one of its row
C27_ToggleSettlesEqual ==
    \A row \in remoteTasks :
        (/\ HasTask(tasks, row.id)
         /\ \A op \in taskOps : ~(op.kind = "toggle" /\ op.id = row.id)) =>
            TaskOf(tasks, row.id).completed = row.completed

\* C28: when an addFile call has finished, its file is in the local list only
\* if its storage object and its files row both exist; a failed upload inserts
\* nothing, and after a failed insert the uploaded object has been removed
\* again and the local list is as it was
C28_ListedFileIsStored ==
    [][(fileAdd.pc # "idle" /\ fileAdd'.pc = "idle") =>
          /\ (\E i \in 1..Len(files') : files'[i].id = fileAdd.id) =>
                 (fileAdd.id \in storageObjects' /\ filesTable'[fileAdd.id].exists)
          /\ fileAdd.pc = "upload" =>
                 (filesTable' = filesTable /\ files' = files)
          /\ fileAdd.pc = "remove" =>
                 (fileAdd.id \notin storageObjects' /\ files' = files)]_vars

\* C29: updateUser returns success = true once an update attempt has returned
\* a user, also when no verification read shows metadata different from
\* before; and updateUser replaces the local user only on a verification read
\* that shows changed metadata
C29_SuccessAfterUserReturned ==
    /\ []((upd.pc = "done" /\ \E i \in DOMAIN upd.outcomes : upd.outcomes[i] = "ok") =>
             upd.result.success)
    /\ [][(upd' # upd /\ user' # user) =>
             /\ upd.pc = "verify"
             /\ authMeta # upd.currentUser
             /\ user' = formatUserFromSupabase(authMeta)]_vars

====
